---- MODULE Spec2Model ----
(***************************************************************************)
(* A model of the dendynes NES core: the 6502 interpreter (cpu/processor), *)
(* the bus (bus/mod), the PPU (ppu/mod, ppu/registers), the cartridge and  *)
(* its mappers, and the frame driver clock_cpu (dendynes/mod).             *)
(*                                                                         *)
(* Bytes and words are naturals; every u8/u16 operation of the source is   *)
(* written with its wrap-around (% 256, % 65536).  Arrays that start       *)
(* zeroed (CPU RAM, name-table RAM, palette RAM, OAM) are functions whose  *)
(* domain holds the non-zero cells only.                                   *)
(*                                                                         *)
(* PPU.screen is such a function too, from y * 256 + x to the cell         *)
(* screen[y][x].                                                           *)
(*                                                                         *)
(* Not modelled: debug_pattern_tables, PPU.total_cycles and CPU.cycles     *)
(* (counters nothing reads), logging, and the piston window loop other     *)
(* than its calls of clock_cpu.                                            *)
(***************************************************************************)
EXTENDS Integers, Sequences, FiniteSets, TLC

(***************************************************************************)
(* Bounds of the model.                                                    *)
(***************************************************************************)
\* CPU cycles after which the frame driver is no longer entered / stepped.
MaxCpuCycles == 60000
\* Length of the register access sequences explored by SpecReg.
MaxOps == 4

(***************************************************************************)
(* Program constants.                                                      *)
(***************************************************************************)
SCANLINES_COUNT == 262
SCANLINES_PER_FRAME == 241
CYCLES_TO_DRAW_SCANLINE == 341
VISIBLE_SCANLINE_CYCLES == 256
PPU_MEMORY_SIZE == 2048
PALETTE_PAGE_START == 16128
MAX_SPRITES_COUNT == 8
OAM_SPRITES_COUNT == 64
SCREEN_HEIGHT == 240
SCREEN_WIDTH == 256
PALETTE_MEMORY_START == 16128
STACK_PAGE_START == 256
BRK_INTERRUPT_VECTOR_ADDRESS == 65534
PAGE_CROSSING_CYCLES == 1
PAGE_CROSSING_MASK == 65280
NMI_INTERRUPT_VECTOR_ADDRESS == 65530
RESET_PROGRAM_POINTER_ADDRESS == 65532

\* Controller, Mask and Status flags (bitflags! blocks), as bit masks.
GENERATE_NMI == 128
VRAM_ADDRESS_INCREMENT == 4
SPRITE_PATTERN_ADDRESS == 8
BACKROUND_PATTERN_ADDRESS == 16
SPRITE_SIZE == 32
LEFTMOST_SHOW_BACKGROUND == 2
LEFTMOST_SHOW_SPRITES == 4
SHOW_BACKGROUND == 8
SHOW_SPRITES == 16
SPRITE_OVERFLOW == 32
SPRITE_ZERO_HIT == 64
VERTICAL_BLANK == 128

(***************************************************************************)
(* Bit operations on naturals.                                             *)
(***************************************************************************)
\* flags.contains(flag) for a one-bit flag
Contains(x, flag) == (x \div flag) % 2 = 1
\* flags.insert(flag) / flags.remove(flag) / flags.set(flag, on) for a one-bit flag
SetFlag(x, flag, on) ==
    IF on THEN (IF Contains(x, flag) THEN x ELSE x + flag)
    ELSE (IF Contains(x, flag) THEN x - flag ELSE x)

RECURSIVE BitAnd(_, _)
\* a & b
BitAnd(a, b) ==
    IF a = 0 \/ b = 0 THEN 0
    ELSE (a % 2) * (b % 2) + 2 * BitAnd(a \div 2, b \div 2)

\* a | b
BitOr(a, b) == a + b - BitAnd(a, b)

\* a ^ b
BitXor(a, b) == a + b - 2 * BitAnd(a, b)

\* array[index] of an array that started zeroed
Peek(mem, a) == IF a \in DOMAIN mem THEN mem[a] ELSE 0
\* array[index] = value
Poke(mem, a, v) ==
    IF v # 0 THEN (a :> v) @@ mem
    ELSE IF a \in DOMAIN mem THEN [x \in DOMAIN mem \ {a} |-> mem[x]]
    ELSE mem

\* The array of eight elements F(0), ..., F(7), as a tuple: element i of
\* the array is element i + 1 of the tuple
Array8(F(_)) == << F(0), F(1), F(2), F(3), F(4), F(5), F(6), F(7) >>

\* F(v), with v evaluated once: a statement's result v, then the statements
\* F that follow it
Then(v, F(_)) == CHOOSE r \in { F(b) : b \in { v } } : TRUE

(***************************************************************************)
(* Cartridges.  A cartridge is built from a ROM file; the model draws the  *)
(* ROM from a small set of images, each an NROM cartridge with one PRG     *)
(* bank and one CHR bank, given by its program bytes at $8000, its         *)
(* interrupt vectors, the 256-byte page at $8100 and its CHR fill byte.    *)
(***************************************************************************)
\* LDA #$1E; STA $2001; LDA #$80; STA $2000; LDA #$81;
\* loop: STA $4014; JMP loop.  NMI: RTI.
\* Turns rendering and NMI on, then loads OAM for ever from the page at
\* $8100, which holds 64 sprites (y = 232, id = 0, attribute = 0, x = 8);
\* CHR is filled with $FF, so every background and sprite pixel is opaque.
RomNmiRender ==
    [ code |-> << 169, 30,  141, 1, 32,  169, 128,  141, 0, 32,  169, 129,
                  141, 20, 64,  76, 12, 128,  64 >>,
      nmi |-> 32786, reset |-> 32768, page |-> << 232, 0, 0, 8 >>, chr |-> 255,
      mirroring |-> "Horizontal" ]
\* LDA #$02; loop: STA $4014; LDX $2002; JMP loop.
\* Loads OAM from RAM page 2 and reads the status register, for ever.
RomPoll ==
    [ code |-> << 169, 2,  141, 20, 64,  174, 2, 32,  76, 2, 128 >>,
      nmi |-> 32768, reset |-> 32768, page |-> << 0, 0, 0, 0 >>, chr |-> 0,
      mirroring |-> "Vertical" ]
\* The program of RomPoll in a file whose header has the four-screen bit set
RomFourScreen == [RomPoll EXCEPT !.mirroring = "FourScreen"]

Roms == { RomNmiRender, RomPoll }

\* Cartridge.prg_memory[offset] of the cartridge built from rom
PrgByte(rom, off) ==
    IF off < Len(rom.code) THEN rom.code[off + 1]
    ELSE IF off >= 256 /\ off < 512 THEN rom.page[(off % 4) + 1]
    ELSE IF off = 16378 THEN rom.nmi % 256
    ELSE IF off = 16379 THEN rom.nmi \div 256
    ELSE IF off = 16380 THEN rom.reset % 256
    ELSE IF off = 16381 THEN rom.reset \div 256
    ELSE IF off = 16382 THEN rom.reset % 256
    ELSE IF off = 16383 THEN rom.reset \div 256
    ELSE 234

\* NROMMapper::map_cpu_read, prg_banks_count = 1
nrom_map_cpu_read(index) == index % 16384
\* NROMMapper::map_ppu_read, chr_banks_count = 1
nrom_map_ppu_read(index) == index % 8192
\* Cartridge::cpu_read_u8
cpu_read_u8(rom, index) == PrgByte(rom, nrom_map_cpu_read(index))
\* Cartridge.chr_memory[offset]: every CHR byte of a model ROM is its fill byte
ChrByte(rom, off) == rom.chr
\* Cartridge::ppu_read_u8
ppu_read_u8(rom, index) == ChrByte(rom, nrom_map_ppu_read(index))

\* CHR_BANK_PAGE_SIZE of nrom_mapper
CHR_BANK_PAGE_SIZE == 8192

\* NROMMapper::map_ppu_read of a mapper of chr_banks_count CHR banks
map_ppu_read(chr_banks_count, index) ==
    IF chr_banks_count > 1
    THEN BitAnd(index, BitAnd(CHR_BANK_PAGE_SIZE * chr_banks_count, 1))
    ELSE BitAnd(index, CHR_BANK_PAGE_SIZE - 1)

\* NROMMapper::map_ppu_write of a mapper of chr_banks_count CHR banks
map_ppu_write(chr_banks_count, index) ==
    IF chr_banks_count > 1
    THEN BitAnd(index, BitAnd(CHR_BANK_PAGE_SIZE * chr_banks_count, 1))
    ELSE BitAnd(index, CHR_BANK_PAGE_SIZE - 1)

\* BANK_SIZE of uxrom_mapper, BANK_PAGE_SIZE of nrom_mapper
BANK_SIZE == 16384

\* A UxROM cartridge of prg_banks_count PRG banks: UxRomMapper::new and the
\* PRG memory read_rom_data took.  prg_memory gives each 16 KiB bank a tag;
\* the byte at offset off of the bank tagged t is 16 * t + off mod 16.
UxRomCartridge(prg_banks_count) ==
    [ prg_banks_count |-> prg_banks_count,
      bank_select_register |-> 0,
      bank_select_count_register |-> prg_banks_count - 1,
      prg_memory |-> [ bank \in 0 .. prg_banks_count - 1 |-> bank ] ]

\* UxRomMapper::map_cpu_read
uxrom_map_cpu_read(c, index) ==
    IF index >= 32768 /\ index <= 49151
    THEN c.bank_select_register * BANK_SIZE + (index % BANK_SIZE)
    ELSE IF index >= 49152 /\ index <= 65535
    THEN c.bank_select_count_register * BANK_SIZE + (index % BANK_SIZE)
    ELSE index

\* UxRomMapper::map_cpu_write: the cartridge after the call
uxrom_map_cpu_write(c, index, value) ==
    IF index >= 32768 /\ index <= 65535
    THEN [c EXCEPT !.bank_select_register = value % 16]
    ELSE c

\* prg_memory[off] as << in bounds, byte >>: indexing the vector beyond its
\* length panics
prg_memory_at(c, off) ==
    IF off \div BANK_SIZE \in DOMAIN c.prg_memory
    THEN << TRUE, 16 * c.prg_memory[off \div BANK_SIZE] + (off % 16) >>
    ELSE << FALSE, 0 >>

\* Cartridge::cpu_read_u8 of a UxROM cartridge
uxrom_cpu_read_u8(c, index) == prg_memory_at(c, uxrom_map_cpu_read(c, index))

\* Cartridge::cpu_write_u8 of a UxROM cartridge
uxrom_cpu_write_u8(c, index, value) == uxrom_map_cpu_write(c, index, value)

\* PRG_BANK_SIZE, CHR_BANK_SIZE, TRAINER_SIZE of cartridge/mod.rs
PRG_BANK_SIZE == 16384
CHR_BANK_SIZE == 8192
TRAINER_SIZE == 512

\* A ROM file is given by the bytes it starts with, as many as sixteen, and
\* by the number of bytes that follow the sixteenth.
\* Cartridge::read_header(data): the header parsed and the number of bytes
\* left after it, or an error ([ ok |-> FALSE ]): the data ends before the
\* bytes taken, or flag byte 2 carries the NES 2.0 marker.
read_header(bytes, more) ==
    IF Len(bytes) < 8 THEN [ ok |-> FALSE ]
    ELSE IF BitAnd(bytes[8], 12) \div 4 = 2 THEN [ ok |-> FALSE ]
    ELSE IF Len(bytes) < 16 THEN [ ok |-> FALSE ]
    ELSE IF Contains(bytes[7] % 16, 4) /\ more < TRAINER_SIZE THEN [ ok |-> FALSE ]
    ELSE [ ok |-> TRUE,
           name |-> SubSeq(bytes, 1, 4),
           prg_banks_count |-> bytes[5],
           chr_banks_count |-> bytes[6],
           mapper_flags |-> bytes[7] % 16,
           prg_ram_size |-> bytes[9],
           mapper_id |-> BitOr(BitAnd(bytes[7], 240), bytes[8] \div 16),
           mirroring |-> IF Contains(bytes[7] % 16, 8) THEN "FourScreen"
                         ELSE IF Contains(bytes[7] % 16, 1) THEN "Vertical"
                         ELSE "Horizontal",
           rest |-> IF Contains(bytes[7] % 16, 4) THEN more - TRAINER_SIZE ELSE more ]

\* impl From<u8> for MapperType; "panic" for the values it panics on
MapperType_from(value) ==
    IF value = 0 THEN "NROM"
    ELSE IF value \in { 2, 32 } THEN "UxRom"
    ELSE "panic"

\* Cartridge::new on the data of a ROM file: the cartridge built, or
\* [ ok |-> FALSE ] when it panics: read_header failed, read_rom_data found
\* fewer bytes than the PRG and CHR banks need, or the mapper id converts to
\* no MapperType
Cartridge_new(bytes, more) ==
    LET header == read_header(bytes, more)
    IN  IF ~header.ok THEN [ ok |-> FALSE ]
        ELSE IF header.rest < header.prg_banks_count * PRG_BANK_SIZE
                   + header.chr_banks_count * CHR_BANK_SIZE THEN [ ok |-> FALSE ]
        ELSE IF MapperType_from(header.mapper_id) = "panic" THEN [ ok |-> FALSE ]
        ELSE [ ok |-> TRUE,
               header |-> header,
               mapper_type |-> MapperType_from(header.mapper_id),
               prg_banks_count |-> header.prg_banks_count,
               chr_banks_count |-> header.chr_banks_count,
               mirroring |-> header.mirroring ]

(***************************************************************************)
(* PPU registers (ppu/registers.rs).                                       *)
(***************************************************************************)
\* LoopyRegister::new
LoopyNew ==
    [ coarse_x |-> 0, coarse_y |-> 0, nametable_x |-> 0, nametable_y |-> 0,
      fine_y |-> 0 ]

\* LoopyRegister::address
address(r) ==
    r.fine_y * 4096 + r.nametable_y * 2048 + r.nametable_x * 1024
    + r.coarse_y * 32 + r.coarse_x

\* LoopyRegister::set
loopy_set(value) ==
    [ coarse_x |-> value % 32,
      coarse_y |-> (value \div 32) % 32,
      nametable_x |-> (value \div 1024) % 2,
      nametable_y |-> (value \div 2048) % 2,
      fine_y |-> (value \div 4096) % 8 ]

\* LoopyRegister::increment
increment(r, vertical_mode) ==
    loopy_set((address(r) + (IF vertical_mode THEN 32 ELSE 1)) % 65536)

\* LoopyRegister::increment_coarse_x (with flip_nametable_x)
increment_coarse_x(r) ==
    IF r.coarse_x = 31
    THEN [r EXCEPT !.coarse_x = 0, !.nametable_x = 1 - r.nametable_x]
    ELSE [r EXCEPT !.coarse_x = r.coarse_x + 1]

\* LoopyRegister::increment_coarse_y with a fault: row 29 is stepped like
\* any other row
increment_coarse_y_no_wrap_at_29(r) ==
    IF r.fine_y < 7 THEN [r EXCEPT !.fine_y = r.fine_y + 1]
    ELSE IF r.coarse_y = 31 THEN [r EXCEPT !.fine_y = 0, !.coarse_y = 0]
    ELSE [r EXCEPT !.fine_y = 0, !.coarse_y = r.coarse_y + 1]

\* LoopyRegister::increment_coarse_y (with flip_nametable_y)
increment_coarse_y(r) ==
    IF r.fine_y < 7 THEN [r EXCEPT !.fine_y = r.fine_y + 1]
    ELSE IF r.coarse_y = 29
    THEN [r EXCEPT !.fine_y = 0, !.coarse_y = 0, !.nametable_y = 1 - r.nametable_y]
    ELSE IF r.coarse_y = 31 THEN [r EXCEPT !.fine_y = 0, !.coarse_y = 0]
    ELSE [r EXCEPT !.fine_y = 0, !.coarse_y = r.coarse_y + 1]

\* Mask::is_render_enabled
is_render_enabled(mask) == Contains(mask, SHOW_BACKGROUND) \/ Contains(mask, SHOW_SPRITES)

(***************************************************************************)
(* The PPU (ppu/mod.rs).  A PPU is a record p; rom is the cartridge it     *)
(* borrows.  p.panic says that a panic!() was reached.                     *)
(***************************************************************************)
\* OamSprite::new_empty
EmptySprite == [ y |-> 0, id |-> 0, attribute |-> 0, x |-> 0 ]

\* PPU::new
ppu_new ==
    [ cycles |-> 0, scanlines |-> 0, nmi_interrupt |-> FALSE, latch |-> FALSE,
      control_register |-> 0, mask_register |-> 0, status_register |-> 0,
      oam_address_register |-> 0,
      address_register |-> LoopyNew, temp_address_register |-> LoopyNew,
      fine_x |-> 0,
      next_background_tile_id |-> 0, next_background_tile_attribute |-> 0,
      next_background_tile_lsb |-> 0, next_background_tile_msb |-> 0,
      background_shifter_pattern_low |-> 0, background_shifter_pattern_high |-> 0,
      background_shifter_attribute_low |-> 0, background_shifter_attribute_high |-> 0,
      sprites_count |-> 0,
      sprite_shifter_pattern_low |-> << 0, 0, 0, 0, 0, 0, 0, 0 >>,
      sprite_shifter_pattern_high |-> << 0, 0, 0, 0, 0, 0, 0, 0 >>,
      oam_sprites |-> << >>,
      scanline_sprites |-> LET Empty(i) == EmptySprite IN Array8(Empty),
      has_sprite_zero_hit |-> FALSE, is_sprite_zero_hit_rendering |-> FALSE,
      data_buffer |-> 0, memory |-> << >>, palette |-> << >>, screen |-> << >>,
      completed_frame |-> FALSE, odd_frame |-> FALSE,
      panic |-> FALSE ]

\* The match on the mirroring in read_from_internal_memory and
\* write_to_internal_memory: every other mirroring panics.
mirroring_supported(rom) == rom.mirroring \in {"Horizontal", "Vertical"}

\* PPU::read_from_internal_memory: every arm of both supported mirrorings
\* indexes memory[mirrored_address & (PPU_MEMORY_SIZE - 1)].
read_from_internal_memory(p, rom, addr) ==
    Peek(p.memory, (addr % 4096) % PPU_MEMORY_SIZE)

\* PPU::write_to_internal_memory
write_to_internal_memory(p, rom, addr, value) ==
    IF mirroring_supported(rom)
    THEN [p EXCEPT !.memory = Poke(p.memory, (addr % 4096) % PPU_MEMORY_SIZE, value)]
    ELSE [p EXCEPT !.panic = TRUE]

\* PaletteIndex without the internal mirrors
PaletteIndex_unmirrored(addr) == addr % 32

\* The palette index of read_u8 / write_u8: address & 31, and the internal
\* mirrors $10/$14/$18/$1C are moved down by $10.
PaletteIndex(addr) ==
    LET a == addr % 32 IN IF a \in {16, 20, 24, 28} THEN a - 16 ELSE a

\* PPU::read_u8 (the value read)
read_u8(p, rom, addr) ==
    LET a == addr % 16384
    IN  IF a < 8192 THEN ppu_read_u8(rom, a)
        ELSE IF a < PALETTE_PAGE_START THEN read_from_internal_memory(p, rom, a)
        ELSE Peek(p.palette, PaletteIndex(a))

\* PPU::read_u8 (whether it panics)
read_u8_panics(rom, addr) ==
    LET a == addr % 16384
    IN  a >= 8192 /\ a < PALETTE_PAGE_START /\ ~mirroring_supported(rom)

\* PPU::write_u8: the address is not masked, so an address above $3FFF
\* falls to the panic arm.  NROM has no CHR RAM: a CHR write changes nothing.
write_u8(p, rom, addr, value) ==
    IF addr < 8192 THEN p
    ELSE IF addr < PALETTE_PAGE_START THEN write_to_internal_memory(p, rom, addr, value)
    ELSE IF addr <= 16383
    THEN [p EXCEPT !.palette = Poke(p.palette, PaletteIndex(addr), value)]
    ELSE [p EXCEPT !.panic = TRUE]

\* PPU::increment_address_register
increment_address_register(p) ==
    [p EXCEPT !.address_register =
        increment(p.address_register, Contains(p.control_register, VRAM_ADDRESS_INCREMENT))]

\* PPU::read_status_register with Status::read: the value returned.  The
\* status flags are bits 5..7 and the open-bus mask is $1F, so | is +.
read_status_value(p) == p.status_register + (p.data_buffer % 32)

\* PPU::read_status_register with a fault: the write toggle is left alone
read_status_register_keeps_latch(p) ==
    [p EXCEPT !.status_register = SetFlag(p.status_register, VERTICAL_BLANK, FALSE)]

\* PPU::read_status_register: the state it leaves
read_status_register(p) ==
    [p EXCEPT !.status_register = SetFlag(p.status_register, VERTICAL_BLANK, FALSE),
              !.latch = FALSE]

\* PPU::read_oam_data_register (get_oam_data_value)
read_oam_data_register(p) == Peek(p.oam_sprites, p.oam_address_register)

\* PPU::read_data_register with a fault: the value returned is always the
\* byte just read, never the buffer
read_data_value_unbuffered(p, rom) == read_u8(p, rom, address(p.address_register))

\* PPU::read_data_register: the value returned
read_data_value(p, rom) ==
    IF address(p.address_register) >= PALETTE_PAGE_START
    THEN read_u8(p, rom, address(p.address_register))
    ELSE p.data_buffer

\* PPU::read_data_register: the state it leaves
read_data_register(p, rom) ==
    LET addr == address(p.address_register)
        q == [p EXCEPT !.data_buffer = read_u8(p, rom, addr),
                       !.panic = p.panic \/ read_u8_panics(rom, addr)]
    IN  increment_address_register(q)

\* PPU::write_control_register
write_control_register(p, value) ==
    [p EXCEPT !.control_register = value,
              !.temp_address_register.nametable_x = value % 2,
              !.temp_address_register.nametable_y = (value \div 2) % 2]

\* PPU::write_mask_register
write_mask_register(p, value) == [p EXCEPT !.mask_register = value]

\* PPU::write_oam_address_register
write_oam_address_register(p, value) == [p EXCEPT !.oam_address_register = value]

\* PPU::write_oam_data_register (set_oam_data_value), also write_oam_dma_register_seq
write_oam_data_register(p, value) ==
    [p EXCEPT !.oam_sprites = Poke(p.oam_sprites, p.oam_address_register, value),
              !.oam_address_register = (p.oam_address_register + 1) % 256]

\* PPU::write_scroll_register
write_scroll_register(p, value) ==
    IF ~p.latch
    THEN [p EXCEPT !.fine_x = value % 8,
                   !.temp_address_register.coarse_x = value \div 8,
                   !.latch = TRUE]
    ELSE [p EXCEPT !.address_register.fine_y = value % 8,
                   !.temp_address_register.coarse_y = value \div 8,
                   !.latch = FALSE]

\* PPU::write_address_register with a fault: the first write is not masked
\* with $3F
write_address_register_unmasked(p, value) ==
    LET t == address(p.temp_address_register)
    IN  IF ~p.latch
        THEN [p EXCEPT !.temp_address_register = loopy_set(value * 256 + (t % 256)),
                       !.latch = TRUE]
        ELSE [p EXCEPT !.temp_address_register = loopy_set((t \div 256) * 256 + value),
                       !.address_register = loopy_set((t \div 256) * 256 + value),
                       !.latch = FALSE]

\* PPU::write_address_register
write_address_register(p, value) ==
    LET t == address(p.temp_address_register)
    IN  IF ~p.latch
        THEN [p EXCEPT !.temp_address_register = loopy_set((value % 64) * 256 + (t % 256)),
                       !.latch = TRUE]
        ELSE [p EXCEPT !.temp_address_register = loopy_set((t \div 256) * 256 + value),
                       !.address_register = loopy_set((t \div 256) * 256 + value),
                       !.latch = FALSE]

\* PPU::write_data_register
write_data_register(p, rom, value) ==
    increment_address_register(write_u8(p, rom, address(p.address_register), value))

(***************************************************************************)
(* PPU::tick and the procedures it calls.                                  *)
(***************************************************************************)
\* Mask::is_background_enabled / is_foreground_enabled are Contains(mask, SHOW_...)

\* OamSprite i of the OAM (oam_sprites[i]); OAM is kept as its 256 bytes
OamSprite(p, i) ==
    [ y |-> Peek(p.oam_sprites, 4 * i), id |-> Peek(p.oam_sprites, 4 * i + 1),
      attribute |-> Peek(p.oam_sprites, 4 * i + 2), x |-> Peek(p.oam_sprites, 4 * i + 3) ]

\* Controller::get_sprite_size
get_sprite_size(control) == IF Contains(control, SPRITE_SIZE) THEN 16 ELSE 8

\* PPU::new_frame_reset (Status::reset, clear_sprites)
new_frame_reset(p) ==
    [p EXCEPT !.status_register = @ % 32,
              !.scanline_sprites = LET Empty(i) == EmptySprite IN Array8(Empty)]

\* PPU::update_sprite_shifters (update_background_shifters, update_foreground_shifters)
update_sprite_shifters(p) ==
    LET bg == Contains(p.mask_register, SHOW_BACKGROUND)
        fg == Contains(p.mask_register, SHOW_SPRITES) /\ p.cycles >= 1 /\ p.cycles <= 257
        Shl16(v) == (v * 2) % 65536
        moving(i) == i < p.sprites_count /\ p.scanline_sprites[i + 1].x > 0
        shifting(i) == i < p.sprites_count /\ p.scanline_sprites[i + 1].x = 0
        Sprite(i) == IF moving(i) THEN [p.scanline_sprites[i + 1] EXCEPT !.x = @ - 1]
                     ELSE p.scanline_sprites[i + 1]
        Low(i) == IF shifting(i) THEN (p.sprite_shifter_pattern_low[i + 1] * 2) % 256
                  ELSE p.sprite_shifter_pattern_low[i + 1]
        High(i) == IF shifting(i) THEN (p.sprite_shifter_pattern_high[i + 1] * 2) % 256
                   ELSE p.sprite_shifter_pattern_high[i + 1]
        q == IF bg
             THEN [p EXCEPT
                     !.background_shifter_pattern_low = Shl16(@),
                     !.background_shifter_pattern_high = Shl16(@),
                     !.background_shifter_attribute_low = Shl16(@),
                     !.background_shifter_attribute_high = Shl16(@)]
             ELSE p
    IN  IF fg /\ p.sprites_count > 0
        THEN [q EXCEPT !.scanline_sprites = Array8(Sprite),
                       !.sprite_shifter_pattern_low = Array8(Low),
                       !.sprite_shifter_pattern_high = Array8(High)]
        ELSE q

\* PPU::load_background_shifters
load_background_shifters(p) ==
    [p EXCEPT
        !.background_shifter_pattern_low = (@ \div 256) * 256 + p.next_background_tile_lsb,
        !.background_shifter_pattern_high = (@ \div 256) * 256 + p.next_background_tile_msb,
        !.background_shifter_attribute_low =
            (@ \div 256) * 256 + (IF p.next_background_tile_attribute % 2 = 1 THEN 255 ELSE 0),
        !.background_shifter_attribute_high =
            (@ \div 256) * 256
            + (IF (p.next_background_tile_attribute \div 2) % 2 = 1 THEN 255 ELSE 0)]

\* PPU::increment_scroll_x
increment_scroll_x(p) ==
    IF is_render_enabled(p.mask_register)
    THEN [p EXCEPT !.address_register = increment_coarse_x(@)] ELSE p

\* PPU::increment_scroll_y
increment_scroll_y(p) ==
    IF is_render_enabled(p.mask_register)
    THEN [p EXCEPT !.address_register = increment_coarse_y(@)] ELSE p

\* PPU::transfer_x_address (LoopyRegister::transfer_x_from)
transfer_x_address(p) ==
    IF is_render_enabled(p.mask_register)
    THEN [p EXCEPT !.address_register.nametable_x = p.temp_address_register.nametable_x,
                   !.address_register.coarse_x = p.temp_address_register.coarse_x]
    ELSE p

\* PPU::transfer_y_address (LoopyRegister::transfer_y_from)
transfer_y_address(p) ==
    IF is_render_enabled(p.mask_register)
    THEN [p EXCEPT !.address_register.fine_y = p.temp_address_register.fine_y,
                   !.address_register.nametable_y = p.temp_address_register.nametable_y,
                   !.address_register.coarse_y = p.temp_address_register.coarse_y]
    ELSE p

\* The name-table fetch "next_background_tile_id = read_from_internal_memory(
\* address_register.vram_address())" of load_background_info and tick
FetchTileId(p, rom) ==
    [p EXCEPT !.next_background_tile_id =
                  read_from_internal_memory(p, rom, address(p.address_register) % 4096),
              !.panic = @ \/ ~mirroring_supported(rom)]

\* PPU::load_background_info
load_background_info(p, rom) ==
    LET v == p.address_register
        phase == (p.cycles - 1) % 8
        pattern == (IF Contains(p.control_register, BACKROUND_PATTERN_ADDRESS) THEN 4096 ELSE 0)
                   + p.next_background_tile_id * 16 + v.fine_y
        attr_address == 960 + v.nametable_y * 2048 + v.nametable_x * 1024
                        + (v.coarse_y \div 4) * 8 + (v.coarse_x \div 4)
        attr0 == read_from_internal_memory(p, rom, attr_address)
        attr1 == IF (v.coarse_y \div 2) % 2 = 1 THEN attr0 \div 16 ELSE attr0
        attr2 == IF (v.coarse_x \div 2) % 2 = 1 THEN attr1 \div 4 ELSE attr1
    IN  CASE phase = 0 -> Then(load_background_shifters(p), LAMBDA q : FetchTileId(q, rom))
          [] phase = 2 -> [p EXCEPT !.next_background_tile_attribute = attr2,
                                    !.panic = @ \/ ~mirroring_supported(rom)]
          [] phase = 4 -> [p EXCEPT !.next_background_tile_lsb = read_u8(p, rom, pattern)]
          [] phase = 6 -> [p EXCEPT !.next_background_tile_msb = read_u8(p, rom, pattern + 8)]
          [] phase = 7 -> increment_scroll_x(p)
          [] OTHER -> p

\* PPU::evaluate_sprites.  The while loop copies, in OAM order, the sprites
\* whose row range holds the scanline, until eight are copied.
evaluate_sprites(p) ==
    IF p.scanlines >= 0 /\ p.cycles = VISIBLE_SCANLINE_CYCLES + 1
    THEN LET size == get_sprite_size(p.control_register)
             InRange(i) == LET diff == p.scanlines - Peek(p.oam_sprites, 4 * i)
                           IN  diff >= 0 /\ diff < size
         IN  Then({ i \in 0..(OAM_SPRITES_COUNT - 1) : InRange(i) }, LAMBDA hits :
             LET Kth(k) == CHOOSE i \in hits : Cardinality({ j \in hits : j < i }) = k
                 count == IF Cardinality(hits) < MAX_SPRITES_COUNT
                          THEN Cardinality(hits) ELSE MAX_SPRITES_COUNT
                 Copied(k) == IF k < count THEN OamSprite(p, Kth(k)) ELSE EmptySprite
             IN  [p EXCEPT
                    !.scanline_sprites = Array8(Copied),
                    !.sprites_count = count,
                    !.sprite_shifter_pattern_low = << 0, 0, 0, 0, 0, 0, 0, 0 >>,
                    !.sprite_shifter_pattern_high = << 0, 0, 0, 0, 0, 0, 0, 0 >>,
                    !.has_sprite_zero_hit = @ \/ (0 \in hits),
                    !.status_register =
                        SetFlag(@, SPRITE_OVERFLOW, count >= MAX_SPRITES_COUNT)])
    ELSE p

\* flip_byte_util
flip_byte_util(byte) ==
    LET b1 == BitAnd(byte, 240) \div 16 + BitAnd(byte, 15) * 16
        b2 == BitAnd(b1, 204) \div 4 + BitAnd(b1, 51) * 4
    IN  BitAnd(b2, 170) \div 2 + BitAnd(b2, 85) * 2

\* PPU::get_sprite_pattern_address_low
get_sprite_pattern_address_low(p, sprite) ==
    LET row == p.scanlines - sprite.y
        flipped == sprite.attribute >= 128
        bank == IF Contains(p.control_register, SPRITE_PATTERN_ADDRESS) THEN 4096 ELSE 0
        tile == BitAnd(sprite.id, 239)
    IN  IF ~Contains(p.control_register, SPRITE_SIZE)
        THEN BitOr(bank + sprite.id * 16,
                   IF flipped THEN (7 - row) % 65536 ELSE row % 65536)
        ELSE IF ~flipped
        THEN (sprite.id % 2) * 4096 + (IF row < 8 THEN tile ELSE tile + 1) * 16 + (row % 8)
        ELSE (sprite.id % 2) * 4096 + (IF row < 8 THEN tile + 1 ELSE tile) * 16
             + ((7 - row) % 8)

\* PPU::prepare_sprite_shifters
prepare_sprite_shifters(p, rom) ==
    IF p.cycles = 340 /\ p.sprites_count > 0
    THEN LET sprite(i) == p.scanline_sprites[i + 1]
             low(i) == get_sprite_pattern_address_low(p, sprite(i)) % 65536
             Bits(i, a) == IF Contains(sprite(i).attribute, 64)
                           THEN flip_byte_util(read_u8(p, rom, a))
                           ELSE read_u8(p, rom, a)
             Low(i) == IF i < p.sprites_count THEN Bits(i, low(i))
                       ELSE p.sprite_shifter_pattern_low[i + 1]
             High(i) == IF i < p.sprites_count THEN Bits(i, (low(i) + 8) % 65536)
                        ELSE p.sprite_shifter_pattern_high[i + 1]
         IN  [p EXCEPT !.sprite_shifter_pattern_low = Array8(Low),
                       !.sprite_shifter_pattern_high = Array8(High)]
    ELSE p

\* PPU::check_nmi_interrupt with a fault: is_end_of_frame is not asked
check_nmi_interrupt_any_dot(p) ==
    IF p.scanlines >= SCANLINES_PER_FRAME /\ p.scanlines < SCANLINES_COUNT
    THEN [p EXCEPT !.status_register = SetFlag(@, VERTICAL_BLANK, TRUE),
                   !.nmi_interrupt = @ \/ Contains(p.control_register, GENERATE_NMI)]
    ELSE p

\* PPU::check_nmi_interrupt (is_end_of_frame)
check_nmi_interrupt(p) ==
    IF p.scanlines >= SCANLINES_PER_FRAME /\ p.scanlines < SCANLINES_COUNT
       /\ p.scanlines = SCANLINES_PER_FRAME /\ p.cycles = 1
    THEN [p EXCEPT !.status_register = SetFlag(@, VERTICAL_BLANK, TRUE),
                   !.nmi_interrupt = @ \/ Contains(p.control_register, GENERATE_NMI)]
    ELSE p

\* PPU::get_background_pixel_info: << pixel, palette >>
get_background_pixel_info(p) ==
    IF Contains(p.mask_register, SHOW_BACKGROUND)
       /\ Contains(p.mask_register, LEFTMOST_SHOW_BACKGROUND) /\ p.cycles > 8
    THEN LET mux == 2 ^ (15 - p.fine_x)
             Bit(v) == IF Contains(v, mux) THEN 1 ELSE 0
         IN  << 2 * Bit(p.background_shifter_pattern_high)
                  + Bit(p.background_shifter_pattern_low),
                2 * Bit(p.background_shifter_attribute_high)
                  + Bit(p.background_shifter_attribute_low) >>
    ELSE << 0, 0 >>

\* PPU::get_sprite_pixel_info: << pixel, palette, priority, index of the sprite >>,
\* the index being 8 when no sprite has an opaque pixel here
get_sprite_pixel_info(p) ==
    LET Pixel(i) == 2 * (p.sprite_shifter_pattern_high[i + 1] \div 128)
                    + (p.sprite_shifter_pattern_low[i + 1] \div 128)
    IN  IF Contains(p.mask_register, SHOW_SPRITES)
           /\ (Contains(p.mask_register, LEFTMOST_SHOW_SPRITES) \/ p.cycles > 8)
        THEN Then({ i \in 0..7 : i < p.sprites_count /\ p.scanline_sprites[i + 1].x = 0
                                  /\ Pixel(i) # 0 }, LAMBDA opaque :
             IF opaque # {}
             THEN LET first == CHOOSE i \in opaque : \A j \in opaque : i <= j
                  IN  << Pixel(first), (p.scanline_sprites[first + 1].attribute % 4) + 4,
                         ~Contains(p.scanline_sprites[first + 1].attribute, 32), first >>
             ELSE << 0, 0, FALSE, 8 >>)
        ELSE << 0, 0, FALSE, 8 >>

\* PPU::evaluate_sprite_zero_hit
evaluate_sprite_zero_hit(p) ==
    IF p.has_sprite_zero_hit /\ p.is_sprite_zero_hit_rendering
       /\ Contains(p.mask_register, SHOW_BACKGROUND) /\ Contains(p.mask_register, SHOW_SPRITES)
       /\ (IF ~(Contains(p.mask_register, LEFTMOST_SHOW_BACKGROUND)
                /\ Contains(p.mask_register, LEFTMOST_SHOW_SPRITES))
           THEN p.cycles > 8 /\ p.cycles <= CYCLES_TO_DRAW_SCANLINE + 1
           ELSE p.cycles > 0 /\ p.cycles <= CYCLES_TO_DRAW_SCANLINE + 1)
    THEN [p EXCEPT !.status_register = SetFlag(@, SPRITE_ZERO_HIT, TRUE)]
    ELSE p

\* PPU::evaluate_pixel: << pixel, palette >>
evaluate_pixel(bg, fg) ==
    IF bg[1] = 0 /\ fg[1] = 0 THEN << 0, 0 >>
    ELSE IF bg[1] = 0 THEN << fg[1], fg[2] >>
    ELSE IF fg[1] = 0 THEN << bg[1], bg[2] >>
    ELSE IF fg[3] THEN << fg[1], fg[2] >> ELSE << bg[1], bg[2] >>

\* PPU::draw_pixel
draw_pixel(p, rom, x, y, pixel, palette) ==
    [p EXCEPT !.screen =
        Poke(@, y * SCREEN_WIDTH + x,
             read_u8(p, rom, PALETTE_MEMORY_START + ((palette * 4) % 256) + pixel))]

\* PPU::increment_scanline
increment_scanline(p) ==
    IF p.cycles >= CYCLES_TO_DRAW_SCANLINE
    THEN IF p.scanlines + 1 >= SCANLINES_COUNT
         THEN [p EXCEPT !.cycles = 0, !.scanlines = -1, !.completed_frame = TRUE,
                        !.odd_frame = ~@]
         ELSE [p EXCEPT !.cycles = 0, !.scanlines = @ + 1]
    ELSE p

\* PPU::tick
tick(p, rom) ==
    LET line == p.scanlines >= -1 /\ p.scanlines < SCANLINES_PER_FRAME - 1
    IN  Then(IF line /\ p.scanlines = 0 /\ p.cycles = 0 /\ is_render_enabled(p.mask_register)
             THEN [p EXCEPT !.cycles = 1] ELSE p, LAMBDA p0 :
        LET c == p0.cycles
            fetch == line /\ ((c >= 2 /\ c <= 257) \/ (c >= 321 /\ c <= 337))
        IN
        Then(IF line /\ p.scanlines = -1 /\ c = 1 THEN new_frame_reset(p0) ELSE p0, LAMBDA p1 :
        Then(IF fetch THEN update_sprite_shifters(p1) ELSE p1, LAMBDA p2 :
        Then(IF fetch THEN load_background_info(p2, rom) ELSE p2, LAMBDA p3 :
        Then(IF line /\ c = VISIBLE_SCANLINE_CYCLES THEN increment_scroll_y(p3) ELSE p3, LAMBDA p4 :
        Then(IF line /\ c = VISIBLE_SCANLINE_CYCLES + 1
             THEN load_background_shifters(p4) ELSE p4, LAMBDA p5 :
        Then(IF line /\ c = VISIBLE_SCANLINE_CYCLES + 1
             THEN transfer_x_address(p5) ELSE p5, LAMBDA p6 :
        Then(IF line THEN evaluate_sprites(p6) ELSE p6, LAMBDA p7 :
        Then(IF line /\ (c = 338 \/ c = 340) THEN FetchTileId(p7, rom) ELSE p7, LAMBDA p8 :
        Then(IF line THEN prepare_sprite_shifters(p8, rom) ELSE p8, LAMBDA p9 :
        Then(IF line /\ p.scanlines = -1 /\ c >= 280 /\ c < 305
             THEN transfer_y_address(p9) ELSE p9, LAMBDA p10 :
        Then(check_nmi_interrupt(p10), LAMBDA p11 :
        Then(get_background_pixel_info(p11), LAMBDA bg :
        Then(get_sprite_pixel_info(p11), LAMBDA fg :
        Then(IF fg[4] = 0 THEN [p11 EXCEPT !.is_sprite_zero_hit_rendering = TRUE]
             ELSE p11, LAMBDA p12 :
        Then(IF bg[1] > 0 /\ fg[1] > 0 THEN evaluate_sprite_zero_hit(p12) ELSE p12, LAMBDA p13 :
        LET px == evaluate_pixel(bg, fg)
            drawn == IF p13.scanlines >= 0 /\ p13.scanlines < SCREEN_HEIGHT
                        /\ p13.cycles > 0 /\ p13.cycles <= SCREEN_WIDTH
                     THEN draw_pixel(p13, rom, p13.cycles - 1, p13.scanlines, px[1], px[2])
                     ELSE p13
        IN  increment_scanline([drawn EXCEPT !.cycles = @ + 1])))))))))))))))))

(***************************************************************************)
(* The machine.  A machine m is the CPU, the bus it owns (RAM, cycle       *)
(* counter, joypads) and the PPU the bus borrows:                          *)
(*   m.cpu, m.ram, m.cpu_cycles, m.joypads, m.ppu                          *)
(* together with two records that only observe it:                         *)
(*   m.watch  what the PPU ticks and status reads did so far,              *)
(*   m.step   what the current cpu_step did.                               *)
(***************************************************************************)
\* One observed change of the PPU status register or of nmi_interrupt: by a
\* PPU tick entered at (scanlines, cycles), or by a read of $2002.
Event(by, p, q) ==
    [ by |-> by, scanlines |-> p.scanlines, cycles |-> p.cycles,
      before |-> p.status_register, after |-> q.status_register,
      gen |-> Contains(p.control_register, GENERATE_NMI),
      nmi_before |-> p.nmi_interrupt, nmi_after |-> q.nmi_interrupt ]

\* The observations before the first tick
WatchNew ==
    [ events |-> {}, scan_min |-> 0, scan_max |-> 0, dot_max |-> 0,
      pulses |-> 0, pulse_cycles |-> 0, frame_len |-> 0,
      nmis |-> 0, frame_nmis |-> 0, gen_all |-> TRUE, frame_gen |-> FALSE,
      ticks |-> 0 ]

\* The observations after one more PPU tick p -> q made at CPU cycle cyc.
\* A frame pulse is the tick in which increment_scanline sets completed_frame;
\* ticks counts the ticks.
Observe(w, p, q, cyc) ==
    LET changed == q.status_register # p.status_register
                   \/ q.nmi_interrupt # p.nmi_interrupt
        w1 == IF changed
              THEN [w EXCEPT !.events = @ \cup {Event("tick", p, q)}, !.ticks = @ + 1]
              ELSE [w EXCEPT !.ticks = @ + 1]
        w2 == IF q.scanlines > w.scan_max \/ q.scanlines < w.scan_min \/ q.cycles > w.dot_max
              THEN [w1 EXCEPT !.scan_max = IF q.scanlines > @ THEN q.scanlines ELSE @,
                              !.scan_min = IF q.scanlines < @ THEN q.scanlines ELSE @,
                              !.dot_max = IF q.cycles > @ THEN q.cycles ELSE @]
              ELSE w1
        w3 == IF w.gen_all /\ ~Contains(p.control_register, GENERATE_NMI)
              THEN [w2 EXCEPT !.gen_all = FALSE] ELSE w2
    IN  IF q.odd_frame # p.odd_frame
        THEN [w3 EXCEPT !.pulses = @ + 1, !.pulse_cycles = cyc,
                        !.frame_len = IF w.pulses > 0 THEN cyc - w.pulse_cycles ELSE 0,
                        !.frame_nmis = w.nmis, !.frame_gen = w3.gen_all,
                        !.nmis = 0, !.gen_all = TRUE]
        ELSE w3

\* JoypadButtons with the bits in the opposite order
JoypadButtons_reversed ==
    [ RIGHT |-> 128, LEFT |-> 64, DOWN |-> 32, UP |-> 16,
      START |-> 8, SELECT |-> 4, B |-> 2, A |-> 1 ]

\* JoypadButtons: the bit of each button
JoypadButtons ==
    [ RIGHT |-> 1, LEFT |-> 2, DOWN |-> 4, UP |-> 8,
      START |-> 16, SELECT |-> 32, B |-> 64, A |-> 128 ]

\* Joypad::new
JoypadNew == [ state |-> 0, buttons_pressed |-> 0 ]

\* One iteration of the loop of Bus::tick: self.ppu.tick(), observed
PpuTick(m, rom) ==
    Then(tick(m.ppu, rom), LAMBDA q :
        [m EXCEPT !.ppu = q, !.watch = Observe(@, m.ppu, q, m.cpu_cycles)])

RECURSIVE PpuTicks(_, _, _)
\* The loop "for _ in 0..(cycles * 3) { self.ppu.tick() }" of Bus::tick, n
\* iterations of it: the first half of them, then, unless that panicked,
\* the second half
PpuTicks(m, rom, n) ==
    IF n = 0 THEN m
    ELSE IF n = 1 THEN PpuTick(m, rom)
    ELSE Then(PpuTicks(m, rom, n \div 2), LAMBDA half :
              IF half.ppu.panic THEN half ELSE PpuTicks(half, rom, n - (n \div 2)))

\* Bus::tick with a fault: the PPU is not ticked
bus_tick_without_ppu(m, rom, cycles) == [m EXCEPT !.cpu_cycles = @ + cycles]

\* Bus::tick
bus_tick(m, rom, cycles) ==
    Then([m EXCEPT !.cpu_cycles = @ + cycles], LAMBDA m1 : PpuTicks(m1, rom, cycles * 3))

\* Bus::read_memory_u8: the value read.  $2008..$3FFF reads again at index & $2007.
read_memory_value(m, rom, index) ==
    LET i == IF index >= 8200 /\ index <= 16383 THEN 8192 + (index % 8) ELSE index
    IN  IF i <= 8191 THEN Peek(m.ram, i % 2048)
        ELSE IF i = 8194 THEN read_status_value(m.ppu)
        ELSE IF i = 8196 THEN read_oam_data_register(m.ppu)
        ELSE IF i = 8199 THEN read_data_value(m.ppu, rom)
        ELSE IF i = 16406 \/ i = 16407 THEN m.joypads[(i % 2) + 1].state \div 128
        ELSE IF i >= 16416 THEN cpu_read_u8(rom, i)
        ELSE 0

\* Bus::read_memory_u8: the state it leaves
read_memory_u8(m, rom, index) ==
    LET i == IF index >= 8200 /\ index <= 16383 THEN 8192 + (index % 8) ELSE index
        status == read_status_register(m.ppu)
    IN  IF i = 8194
        THEN [m EXCEPT !.ppu = status,
                       !.watch.events = IF status.status_register # m.ppu.status_register
                                        THEN @ \cup {Event("read", m.ppu, status)} ELSE @]
        ELSE IF i = 8199 THEN [m EXCEPT !.ppu = read_data_register(@, rom)]
        ELSE IF i = 16406 \/ i = 16407
        THEN [m EXCEPT !.joypads[(i % 2) + 1].state = (@ * 2) % 256]
        ELSE m

\* Bus::read_memory_u16 of two bytes whose reads leave the state unchanged
read_memory_u16(m, rom, index) ==
    read_memory_value(m, rom, index) + 256 * read_memory_value(m, rom, index + 1)

\* One iteration of the loop of the $4014 arm of Bus::write_memory_u8
OamDmaByte(m, rom, addr) ==
    LET value == read_memory_value(m, rom, addr)
    IN  Then(bus_tick(read_memory_u8(m, rom, addr), rom, 1), LAMBDA m1 :
             bus_tick([m1 EXCEPT !.ppu = write_oam_data_register(@, value)], rom, 1))

RECURSIVE OamDma(_, _, _, _)
\* The loop "for address in start_address..=end_address" of the $4014 arm of
\* Bus::write_memory_u8, from address first to last: its first half, then,
\* unless that panicked, its second half
OamDma(m, rom, first, last) ==
    IF first = last THEN OamDmaByte(m, rom, first)
    ELSE LET mid == (first + last) \div 2
         IN  Then(OamDma(m, rom, first, mid), LAMBDA half :
                  IF half.ppu.panic THEN half ELSE OamDma(half, rom, mid + 1, last))

\* The joypad arm of Bus::write_memory_u8 with a fault: the write reloads
\* the shift registers of both joypads
joypad_port_write_both(pads, index) ==
    [ i \in 1..2 |-> [pads[i] EXCEPT !.state = pads[i].buttons_pressed] ]

\* The joypad arm of Bus::write_memory_u8: Joypad::write of joypad index & 1
joypad_port_write(pads, index) ==
    [pads EXCEPT ![(index % 2) + 1].state = pads[(index % 2) + 1].buttons_pressed]

\* Bus::write_memory_u8.  NROM has no PRG RAM: a cartridge write changes nothing.
write_memory_u8(m, rom, index, value) ==
    IF index <= 8191 THEN [m EXCEPT !.ram = Poke(@, index % 2048, value)]
    ELSE IF index = 8192 THEN [m EXCEPT !.ppu = write_control_register(@, value)]
    ELSE IF index = 8193 THEN [m EXCEPT !.ppu = write_mask_register(@, value)]
    ELSE IF index = 8195 THEN [m EXCEPT !.ppu = write_oam_address_register(@, value)]
    ELSE IF index = 8196 THEN [m EXCEPT !.ppu = write_oam_data_register(@, value)]
    ELSE IF index = 8197 THEN [m EXCEPT !.ppu = write_scroll_register(@, value)]
    ELSE IF index = 8198 THEN [m EXCEPT !.ppu = write_address_register(@, value)]
    ELSE IF index = 16404
    THEN Then(IF m.cpu_cycles % 2 = 1 THEN bus_tick(m, rom, 1) ELSE m, LAMBDA m1 :
         Then(OamDma(m1, rom, value * 256, value * 256 + 255), LAMBDA m2 :
              [m2 EXCEPT !.step.dma = TRUE, !.step.dma_odd = (m.cpu_cycles % 2 = 1),
                         !.step.dma_elapsed = m2.cpu_cycles - m.cpu_cycles]))
    ELSE IF index = 8199 THEN [m EXCEPT !.ppu = write_data_register(@, rom, value)]
    ELSE IF index = 16406 \/ index = 16407
    THEN [m EXCEPT !.joypads = joypad_port_write(@, index)]
    ELSE m

(***************************************************************************)
(* The CPU (cpu/processor.rs, cpu/opcode.rs).  Program bytes (the opcode   *)
(* and its operand) are read from RAM or cartridge space, where a read     *)
(* leaves the state unchanged; so trace_state, which only re-reads them,   *)
(* changes nothing.                                                        *)
(***************************************************************************)
\* OPCODES_MAP: the entries of the opcodes the model ROMs use
OpcodeMeta(opcode) ==
    CASE opcode = 0   -> [ name |-> "Brk",  length |-> 1, cycles |-> 7, mode |-> "Implied" ]
      [] opcode = 6   -> [ name |-> "AslZp",  length |-> 2, cycles |-> 5, mode |-> "ZeroPage" ]
      [] opcode = 10  -> [ name |-> "AslAcc", length |-> 1, cycles |-> 2, mode |-> "Accumulator" ]
      [] opcode = 14  -> [ name |-> "AslA",   length |-> 3, cycles |-> 6, mode |-> "Absolute" ]
      [] opcode = 16  -> [ name |-> "Bpl",  length |-> 2, cycles |-> 2, mode |-> "Relative" ]
      [] opcode = 22  -> [ name |-> "AslZpx", length |-> 2, cycles |-> 6, mode |-> "ZeroPageX" ]
      [] opcode = 30  -> [ name |-> "AslAx",  length |-> 3, cycles |-> 7, mode |-> "AbsoluteX(false)" ]
      [] opcode = 38  -> [ name |-> "RolZp",  length |-> 2, cycles |-> 5, mode |-> "ZeroPage" ]
      [] opcode = 42  -> [ name |-> "RolAcc", length |-> 1, cycles |-> 2, mode |-> "Accumulator" ]
      [] opcode = 46  -> [ name |-> "RolA",   length |-> 3, cycles |-> 6, mode |-> "Absolute" ]
      [] opcode = 48  -> [ name |-> "Bmi",  length |-> 2, cycles |-> 2, mode |-> "Relative" ]
      [] opcode = 54  -> [ name |-> "RolZpx", length |-> 2, cycles |-> 6, mode |-> "ZeroPageX" ]
      [] opcode = 62  -> [ name |-> "RolAx",  length |-> 3, cycles |-> 7, mode |-> "AbsoluteX(false)" ]
      [] opcode = 64  -> [ name |-> "Rti",  length |-> 1, cycles |-> 6, mode |-> "Implied" ]
      [] opcode = 70  -> [ name |-> "LsrZp",  length |-> 2, cycles |-> 5, mode |-> "ZeroPage" ]
      [] opcode = 74  -> [ name |-> "LsrAcc", length |-> 1, cycles |-> 2, mode |-> "Accumulator" ]
      [] opcode = 76  -> [ name |-> "JmpA", length |-> 3, cycles |-> 3, mode |-> "Absolute" ]
      [] opcode = 78  -> [ name |-> "LsrA",   length |-> 3, cycles |-> 6, mode |-> "Absolute" ]
      [] opcode = 80  -> [ name |-> "Bvc",  length |-> 2, cycles |-> 2, mode |-> "Relative" ]
      [] opcode = 86  -> [ name |-> "LsrZpx", length |-> 2, cycles |-> 6, mode |-> "ZeroPageX" ]
      [] opcode = 94  -> [ name |-> "LsrAx",  length |-> 3, cycles |-> 7, mode |-> "AbsoluteX(false)" ]
      [] opcode = 102 -> [ name |-> "RorZp",  length |-> 2, cycles |-> 5, mode |-> "ZeroPage" ]
      [] opcode = 105 -> [ name |-> "AdcI", length |-> 2, cycles |-> 2, mode |-> "Immediate" ]
      [] opcode = 106 -> [ name |-> "RorAcc", length |-> 1, cycles |-> 2, mode |-> "Accumulator" ]
      [] opcode = 110 -> [ name |-> "RorA",   length |-> 3, cycles |-> 6, mode |-> "Absolute" ]
      [] opcode = 112 -> [ name |-> "Bvs",  length |-> 2, cycles |-> 2, mode |-> "Relative" ]
      [] opcode = 118 -> [ name |-> "RorZpx", length |-> 2, cycles |-> 6, mode |-> "ZeroPageX" ]
      [] opcode = 126 -> [ name |-> "RorAx",  length |-> 3, cycles |-> 7, mode |-> "AbsoluteX(false)" ]
      [] opcode = 141 -> [ name |-> "StaA", length |-> 3, cycles |-> 4, mode |-> "Absolute" ]
      [] opcode = 144 -> [ name |-> "Bcc",  length |-> 2, cycles |-> 2, mode |-> "Relative" ]
      [] opcode = 145 -> [ name |-> "StaIy", length |-> 2, cycles |-> 6, mode |-> "IndirectY(false)" ]
      [] opcode = 153 -> [ name |-> "StaAy", length |-> 3, cycles |-> 5, mode |-> "AbsoluteY(false)" ]
      [] opcode = 157 -> [ name |-> "StaAx", length |-> 3, cycles |-> 5, mode |-> "AbsoluteX(false)" ]
      [] opcode = 162 -> [ name |-> "LdxI", length |-> 2, cycles |-> 2, mode |-> "Immediate" ]
      [] opcode = 169 -> [ name |-> "LdaI", length |-> 2, cycles |-> 2, mode |-> "Immediate" ]
      [] opcode = 173 -> [ name |-> "LdaA", length |-> 3, cycles |-> 4, mode |-> "Absolute" ]
      [] opcode = 174 -> [ name |-> "LdxA", length |-> 3, cycles |-> 4, mode |-> "Absolute" ]
      [] opcode = 176 -> [ name |-> "Bcs",  length |-> 2, cycles |-> 2, mode |-> "Relative" ]
      [] opcode = 177 -> [ name |-> "LdaIy", length |-> 2, cycles |-> 5, mode |-> "IndirectY(true)" ]
      [] opcode = 185 -> [ name |-> "LdaAy", length |-> 3, cycles |-> 4, mode |-> "AbsoluteY(true)" ]
      [] opcode = 189 -> [ name |-> "LdaAx", length |-> 3, cycles |-> 4, mode |-> "AbsoluteX(true)" ]
      [] opcode = 190 -> [ name |-> "LdxAy", length |-> 3, cycles |-> 4, mode |-> "AbsoluteY(true)" ]
      [] opcode = 208 -> [ name |-> "Bne",  length |-> 2, cycles |-> 2, mode |-> "Relative" ]
      [] opcode = 233 -> [ name |-> "SbcI", length |-> 2, cycles |-> 2, mode |-> "Immediate" ]
      [] opcode = 234 -> [ name |-> "Nop",  length |-> 1, cycles |-> 2, mode |-> "Implied" ]
      [] opcode = 240 -> [ name |-> "Beq",  length |-> 2, cycles |-> 2, mode |-> "Relative" ]

\* CPU::update_status (update_negative_status, update_zero_status)
update_status(status, result) ==
    SetFlag(SetFlag(status, 128, result \div 128 = 1), 2, result = 0)

\* MemoryAccessMode::page_crossed
page_crossed(base, addr) == BitAnd(base, PAGE_CROSSING_MASK) # BitAnd(addr, PAGE_CROSSING_MASK)

\* CPU::cross_page
cross_page(m, rom, base, added) ==
    IF page_crossed(base, added) THEN bus_tick(m, rom, PAGE_CROSSING_CYCLES) ELSE m

\* The address CPU::get_opcode_data_address reads for AbsoluteX, AbsoluteY
\* and IndirectY before it adds the index register to it
unindexed_address(m, rom, index, mode) ==
    IF mode \in { "IndirectY(true)", "IndirectY(false)" }
    THEN LET pointer == read_memory_value(m, rom, index)
         IN  read_memory_value(m, rom, pointer)
             + 256 * read_memory_value(m, rom, (pointer + 1) % 256)
    ELSE read_memory_u16(m, rom, index)

\* CPU::get_opcode_data_address: the address returned.  Relative: the byte
\* read is returned as it is, since (address & 0x80) == 1 holds for no byte.
get_opcode_data_address(m, rom, index, mode) ==
    CASE mode = "Implied" -> 0
      [] mode = "Immediate" -> index
      [] mode = "Accumulator" -> m.cpu.register_a
      [] mode = "ZeroPage" -> read_memory_value(m, rom, index)
      [] mode = "ZeroPageX" -> (read_memory_value(m, rom, index) + m.cpu.register_x) % 256
      [] mode \in { "AbsoluteX(true)", "AbsoluteX(false)" } ->
            (unindexed_address(m, rom, index, mode) + m.cpu.register_x) % 65536
      [] mode \in { "AbsoluteY(true)", "AbsoluteY(false)",
                    "IndirectY(true)", "IndirectY(false)" } ->
            (unindexed_address(m, rom, index, mode) + m.cpu.register_y) % 65536
      [] mode = "Relative" ->
            LET addr == read_memory_value(m, rom, index)
            IN  IF BitAnd(addr, 128) = 1 THEN BitOr(addr, 65280) ELSE addr
      [] mode = "Absolute" -> read_memory_u16(m, rom, index)

\* get_opcode_data_state with the crossing_page flag of the mode ignored
get_opcode_data_state_any_flag(m, rom, index, mode, read) ==
    IF read /\ mode \in { "AbsoluteX(true)", "AbsoluteY(true)", "IndirectY(true)",
                          "AbsoluteX(false)", "AbsoluteY(false)", "IndirectY(false)" }
    THEN cross_page(m, rom, unindexed_address(m, rom, index, mode),
                    get_opcode_data_address(m, rom, index, mode))
    ELSE m

\* CPU::get_opcode_data_address: the state it leaves.  Called for a read
\* with a mode whose crossing_page is true, it calls cross_page.
get_opcode_data_state(m, rom, index, mode, read) ==
    IF read /\ mode \in { "AbsoluteX(true)", "AbsoluteY(true)", "IndirectY(true)" }
    THEN cross_page(m, rom, unindexed_address(m, rom, index, mode),
                    get_opcode_data_address(m, rom, index, mode))
    ELSE m

\* CPU::read_opcode_data: the state it leaves, with the byte it returns in
\* step.data
read_opcode_data(m, rom, mode) ==
    IF mode = "Accumulator" THEN [m EXCEPT !.step.data = m.cpu.register_a]
    ELSE
    Then(IF mode = "Immediate" THEN m.cpu.program_pointer
         ELSE get_opcode_data_address(m, rom, m.cpu.program_pointer, mode), LAMBDA at :
    Then(IF mode = "Immediate" THEN m
         ELSE get_opcode_data_state(m, rom, m.cpu.program_pointer, mode, TRUE), LAMBDA m1 :
    Then(read_memory_value(m1, rom, at), LAMBDA byte :
         [read_memory_u8(m1, rom, at) EXCEPT !.step.data = byte])))

\* CPU::write_opcode_result
write_opcode_result(m, rom, value, mode) ==
    IF mode = "Accumulator"
    THEN [m EXCEPT !.cpu.register_a = value, !.cpu.status = update_status(@, value)]
    ELSE IF mode = "Immediate" THEN write_memory_u8(m, rom, m.cpu.program_pointer, value)
    ELSE write_memory_u8(m, rom,
            get_opcode_data_address(m, rom, m.cpu.program_pointer, mode), value)

\* CPU::push_stack_u8
push_stack_u8(m, rom, value) ==
    [write_memory_u8(m, rom, STACK_PAGE_START + m.cpu.stack_pointer, value)
        EXCEPT !.cpu.stack_pointer = (@ - 1) % 256]

\* CPU::push_stack_u16: the high byte, then the low byte
push_stack_u16(m, rom, value) ==
    Then(push_stack_u8(m, rom, value \div 256), LAMBDA m1 :
         push_stack_u8(m1, rom, value % 256))

\* pop_stack_u8 with the stack pointer incremented without its 8-bit wrap
pop_stack_u8_unwrapped(m, rom) ==
    Then([m EXCEPT !.cpu.stack_pointer = @ + 1], LAMBDA m1 :
         read_memory_u8(m1, rom, STACK_PAGE_START + m1.cpu.stack_pointer))

\* CPU::pop_stack_u8: the state it leaves; the value popped is StackTop of it
pop_stack_u8(m, rom) ==
    Then([m EXCEPT !.cpu.stack_pointer = (@ + 1) % 256], LAMBDA m1 :
         read_memory_u8(m1, rom, STACK_PAGE_START + m1.cpu.stack_pointer))

\* The byte pop_stack_u8 returned: the one the stack pointer is now at
StackTop(m, rom) == read_memory_value(m, rom, STACK_PAGE_START + m.cpu.stack_pointer)

\* interrupts::NMI
NMI == [ interrupt_type |-> "NMI", vector_addr |-> NMI_INTERRUPT_VECTOR_ADDRESS,
         cycles |-> (8 \div 3) + 1 ]

\* CPU::interrupt with a fault: the address pushed is one past program_pointer
interrupt_pushes_next(m, rom, int) ==
    LET status == SetFlag(SetFlag(SetFlag(m.cpu.status, 16, int.interrupt_type = "BRK"),
                                  4, TRUE), 32, TRUE)
    IN  Then(push_stack_u16(m, rom, (m.cpu.program_pointer + 1) % 65536), LAMBDA m1 :
        Then([m1 EXCEPT !.cpu.status = status], LAMBDA m2 :
        Then(bus_tick(push_stack_u8(m2, rom, status), rom, int.cycles), LAMBDA m3 :
        [m3 EXCEPT !.cpu.program_pointer = read_memory_u16(m3, rom, int.vector_addr)])))

\* CPU::interrupt
interrupt(m, rom, int) ==
    LET status == SetFlag(SetFlag(SetFlag(m.cpu.status, 16, int.interrupt_type = "BRK"),
                                  4, TRUE), 32, TRUE)
    IN  Then(push_stack_u16(m, rom, m.cpu.program_pointer % 65536), LAMBDA m1 :
        Then([m1 EXCEPT !.cpu.status = status], LAMBDA m2 :
        Then(bus_tick(push_stack_u8(m2, rom, status), rom, int.cycles), LAMBDA m3 :
        [m3 EXCEPT !.cpu.program_pointer = read_memory_u16(m3, rom, int.vector_addr)])))

\* CPU::rti
rti(m, rom) ==
    Then(pop_stack_u8(m, rom), LAMBDA m1 :
    Then(pop_stack_u8(m1, rom), LAMBDA m2 :
    Then(pop_stack_u8(m2, rom), LAMBDA m3 :
    LET recovered_status == SetFlag(SetFlag(StackTop(m1, rom), 16, FALSE), 32, TRUE)
    IN  [m3 EXCEPT !.cpu.status = recovered_status,
                   !.cpu.program_pointer = StackTop(m2, rom) + 256 * StackTop(m3, rom)])))

\* interrupts::BRK
BRK == [ interrupt_type |-> "BRK", vector_addr |-> BRK_INTERRUPT_VECTOR_ADDRESS,
         cycles |-> 1 ]

\* CPU::brk with a fault: InterruptDisable is not tested
brk_ignores_disable(m, rom) ==
    Then([m EXCEPT !.cpu.program_pointer = @ + 1], LAMBDA m1 : interrupt(m1, rom, BRK))

\* CPU::brk
brk(m, rom) ==
    Then([m EXCEPT !.cpu.program_pointer = @ + 1], LAMBDA m1 :
         IF Contains(m1.cpu.status, 4) THEN m1 ELSE interrupt(m1, rom, BRK))

\* CPU::add_to_register_a with a fault: the result is stored without
\* set_register_a's update_status
add_to_register_a_no_update(c, value) ==
    LET overflowing_bit == IF Contains(c.status, 1) THEN 1 ELSE 0
        wide == c.register_a + value + overflowing_bit
        result == wide % 256
        s1 == SetFlag(c.status, 1, wide > 255)
        s2 == SetFlag(s1, 2, BitAnd(wide, 255) = 1)
        s3 == SetFlag(s2, 128, BitAnd(wide, 128) > 0)
        s4 == SetFlag(s3, 64,
                  BitAnd(BitAnd(BitXor(value, result), BitXor(result, c.register_a)),
                         128) > 0)
    IN  [c EXCEPT !.register_a = result, !.status = s4]

\* CPU::add_to_register_a (set_register_a, update_status), on the CPU's
\* registers c
add_to_register_a(c, value) ==
    LET overflowing_bit == IF Contains(c.status, 1) THEN 1 ELSE 0
        wide == c.register_a + value + overflowing_bit
        result == wide % 256
        s1 == SetFlag(c.status, 1, wide > 255)
        s2 == SetFlag(s1, 2, BitAnd(wide, 255) = 1)
        s3 == SetFlag(s2, 128, BitAnd(wide, 128) > 0)
        s4 == SetFlag(s3, 64,
                  BitAnd(BitAnd(BitXor(value, result), BitXor(result, c.register_a)),
                         128) > 0)
    IN  [c EXCEPT !.register_a = result, !.status = update_status(s4, result)]

\* (value as i8).wrapping_neg().wrapping_sub(1) as u8
NegSub1(value) ==
    LET signed == IF value >= 128 THEN value - 256 ELSE value
        neg == IF signed = -128 THEN -128 ELSE -signed
        sub == IF neg = -128 THEN 127 ELSE neg - 1
    IN  sub % 256

\* CPU::sub_from_register_a
sub_from_register_a(c, value) == add_to_register_a(c, NegSub1(value))

\* CPU::branch
branch(m, rom, condition, mode) ==
    IF condition
    THEN Then(bus_tick(m, rom, 1), LAMBDA m1 :
         LET byte == get_opcode_data_address(m1, rom, m1.cpu.program_pointer, mode) % 256
             displacement == IF byte >= 128 THEN byte - 256 ELSE byte
             program_pointer == (m1.cpu.program_pointer + 1) % 65536
             jump_address == (program_pointer + displacement) % 65536
         IN  Then(jump_address, LAMBDA jump :
             [cross_page(m1, rom, program_pointer, jump)
                 EXCEPT !.cpu.program_pointer = jump]))
    ELSE m

\* What CPU::asl, lsr, rol and ror do with the byte data they have read:
\* result, the byte they write; carry, the Carry they set; zero, they end
\* with update_status (asl, lsr) and not update_negative_status (rol, ror)
asl(data) == [ result |-> (data * 2) % 256, carry |-> data \div 128 = 1, zero |-> TRUE ]

lsr(data) == [ result |-> data \div 2, carry |-> data % 2 = 1, zero |-> TRUE ]

rol(data, status) ==
    [ result |-> BitOr((data * 2) % 256, IF Contains(status, 1) THEN 1 ELSE 0),
      carry |-> data \div 128 = 1, zero |-> FALSE ]

ror(data, status) ==
    [ result |-> BitOr(data \div 2, IF Contains(status, 1) THEN 128 ELSE 0),
      carry |-> data % 2 = 1, zero |-> FALSE ]

\* The carry update, the write and the status update that CPU::asl, lsr,
\* rol and ror share, made in the state m their read_opcode_data left
shift(m, rom, mode, r) ==
    Then([m EXCEPT !.cpu.status = SetFlag(@, 1, r.carry)], LAMBDA m2 :
    Then(write_opcode_result(m2, rom, r.result, mode), LAMBDA m3 :
         [m3 EXCEPT !.cpu.status =
              IF r.zero THEN update_status(@, r.result)
              ELSE SetFlag(@, 128, r.result \div 128 = 1)]))

\* The conditions CPU::bcc, bcs, beq, bne, bmi, bpl, bvc and bvs pass to
\* CPU::branch
BranchCondition(name, status) ==
    CASE name = "Bcc" -> ~Contains(status, 1)
      [] name = "Bcs" -> Contains(status, 1)
      [] name = "Beq" -> Contains(status, 2)
      [] name = "Bne" -> ~Contains(status, 2)
      [] name = "Bmi" -> Contains(status, 128)
      [] name = "Bpl" -> ~Contains(status, 128)
      [] name = "Bvc" -> ~Contains(status, 64)
      [] name = "Bvs" -> Contains(status, 64)

\* The instruction procedures that start with read_opcode_data (lda, ldx,
\* adc, sbc, asl, lsr, rol, ror), from the state m it left and the byte
\* value it returned
Operate(m, rom, meta, value) ==
    CASE meta.name \in {"LdaI", "LdaA", "LdaAx", "LdaAy", "LdaIy"} ->
            [m EXCEPT !.cpu.register_a = value,
                      !.cpu.status = update_status(@, value)]
      [] meta.name \in {"LdxI", "LdxA", "LdxAy"} ->
            [m EXCEPT !.cpu.register_x = value,
                      !.cpu.status = update_status(@, value)]
      [] meta.name = "AdcI" -> [m EXCEPT !.cpu = add_to_register_a(@, value)]
      [] meta.name = "SbcI" -> [m EXCEPT !.cpu = sub_from_register_a(@, value)]
      [] OTHER ->
            shift(m, rom, meta.mode,
                  CASE meta.name \in {"AslAcc", "AslZp", "AslZpx", "AslA", "AslAx"} ->
                          asl(value)
                    [] meta.name \in {"LsrAcc", "LsrZp", "LsrZpx", "LsrA", "LsrAx"} ->
                          lsr(value)
                    [] meta.name \in {"RolAcc", "RolZp", "RolZpx", "RolA", "RolAx"} ->
                          rol(value, m.cpu.status)
                    [] meta.name \in {"RorAcc", "RorZp", "RorZpx", "RorA", "RorAx"} ->
                          ror(value, m.cpu.status))

\* The match on the opcode in CPU::execute_opcode, with the instruction
\* procedures lda, ldx, sta, jmp, rti, nop, brk, adc, sbc, asl, lsr, rol, ror
\* and the branches it dispatches to
Dispatch(m, rom, meta) ==
    CASE meta.name \in {"StaA", "StaAx", "StaAy", "StaIy"} ->
            write_opcode_result(m, rom, m.cpu.register_a, meta.mode)
      [] meta.name = "JmpA" ->
            [m EXCEPT !.cpu.program_pointer =
                get_opcode_data_address(m, rom, m.cpu.program_pointer, meta.mode)]
      [] meta.name = "Rti" -> rti(m, rom)
      [] meta.name = "Nop" -> m
      [] meta.name = "Brk" -> brk(m, rom)
      [] meta.mode = "Relative" ->
            branch(m, rom, BranchCondition(meta.name, m.cpu.status), meta.mode)
      [] OTHER ->
            Then(read_opcode_data(m, rom, meta.mode), LAMBDA m1 :
                 Operate(m1, rom, meta, m1.step.data))

\* CPU::execute_opcode; m.step.elapsed is the value it returns
execute_opcode(m, rom) ==
    LET cycles == m.cpu_cycles
        pc == m.cpu.program_pointer
        opcode == read_memory_value(m, rom, pc)
        meta == OpcodeMeta(opcode)
    IN  Then([m EXCEPT !.cpu.program_pointer = pc + 1,
                       !.step.fetches = @ + 1, !.step.opcode = opcode,
                       !.step.fetched_at = pc], LAMBDA m1 :
        Then(bus_tick(Dispatch(m1, rom, meta), rom, meta.cycles), LAMBDA m2 :
        Then(IF m2.cpu.program_pointer # pc + 1 THEN m2
             ELSE [m2 EXCEPT !.cpu.program_pointer = @ + (meta.length - 1)], LAMBDA m3 :
        [m3 EXCEPT !.step.elapsed = m3.cpu_cycles - cycles])))

\* What a cpu_step has done when it is entered: nothing.
\*   found_nmi, pushed_pc   it serviced an NMI, and the address that pushed,
\*   entry_pc   the PC it was entered with,
\*   fetches, opcode, fetched_at   the opcodes it fetched, the last one and
\*           the address it was fetched from,
\*   elapsed    the value execute_opcode returned,
\*   data       the byte read_opcode_data returned last,
\*   dma, dma_odd, dma_elapsed   it wrote $4014, cpu_cycles was odd at that
\*           write, and the cycles cpu_cycles advanced by during the write,
\*   entry_sp   the stack pointer it was entered with,
\*   nmi_stack  the bytes at $0100 + entry_sp, one below and two below,
\*           when CPU::interrupt(NMI) returned,
\*   nmi_cpu    the CPU registers when CPU::interrupt(NMI) returned,
\*   nmi_elapsed   the cycles cpu_cycles advanced by during CPU::interrupt(NMI).
StepNew ==
    [ found_nmi |-> FALSE, entry_pc |-> 0, pushed_pc |-> 0, fetches |-> 0,
      opcode |-> 0, fetched_at |-> 0, elapsed |-> 0, data |-> 0,
      dma |-> FALSE, dma_odd |-> FALSE, dma_elapsed |-> 0,
      entry_sp |-> 0, nmi_stack |-> << >>, nmi_cpu |-> << >>, nmi_elapsed |-> 0 ]

\* CPU::cpu_step (Bus::poll_nmi_interrupt, Bus::nmi_handled)
cpu_step(m, rom) ==
    LET sp == m.cpu.stack_pointer
    IN  Then([m EXCEPT !.step = [StepNew EXCEPT !.entry_pc = m.cpu.program_pointer,
                                                !.entry_sp = sp]],
             LAMBDA m0 :
        IF m.ppu.nmi_interrupt
        THEN Then(interrupt(m0, rom, NMI), LAMBDA m1 :
             Then([m1 EXCEPT !.ppu.nmi_interrupt = FALSE,
                             !.watch.nmis = @ + 1,
                             !.step.found_nmi = TRUE,
                             !.step.nmi_stack =
                                 << Peek(m1.ram, STACK_PAGE_START + sp),
                                    Peek(m1.ram, STACK_PAGE_START + ((sp - 1) % 256)),
                                    Peek(m1.ram, STACK_PAGE_START + ((sp - 2) % 256)) >>,
                             !.step.nmi_cpu = m1.cpu,
                             !.step.nmi_elapsed = m1.cpu_cycles - m.cpu_cycles,
                             !.step.pushed_pc =
                                 256 * Peek(m1.ram, STACK_PAGE_START + sp)
                                 + Peek(m1.ram, STACK_PAGE_START + ((sp - 1) % 256))],
                  LAMBDA m2 : execute_opcode(m2, rom)))
        ELSE execute_opcode(m0, rom))

\* CPU::reset
reset(m, rom) ==
    bus_tick([m EXCEPT !.cpu = [ register_a |-> 0, register_x |-> 0, register_y |-> 0,
                                 stack_pointer |-> 253,
                                 program_pointer |->
                                     read_memory_u16(m, rom, RESET_PROGRAM_POINTER_ADDRESS),
                                 status |-> 32 ]],
             rom, 8)

\* The machine after Bus::new and PPU::new, when CPU::new is about to call
\* reset
MachineBuilt ==
    [ cpu |-> [ register_a |-> 0, register_x |-> 0, register_y |-> 0,
                stack_pointer |-> 253, program_pointer |-> 49152, status |-> 36 ],
      ram |-> << >>, cpu_cycles |-> 0,
      joypads |-> << JoypadNew, JoypadNew >>,
      ppu |-> ppu_new, watch |-> WatchNew, step |-> StepNew ]

\* The machine after Bus::new, PPU::new and CPU::new (which calls reset)
MachineNew(rom) == reset(MachineBuilt, rom)

(***************************************************************************)
(* The emulator as a state machine: the machine's parts, the cartridge's   *)
(* ROM, and the position of the frame driver.                              *)
(***************************************************************************)
VARIABLES rom, cpu, ram, cpu_cycles, joypads, ppu, watch, step, drv, reg, acc

vars == << rom, cpu, ram, cpu_cycles, joypads, ppu, watch, step, drv, reg, acc >>

\* The machine the variables hold
Machine ==
    [ cpu |-> cpu, ram |-> ram, cpu_cycles |-> cpu_cycles, joypads |-> joypads,
      ppu |-> ppu, watch |-> watch, step |-> step ]

\* The variables hold machine n next.  A handler that panicked leaves the
\* machine as it was, with the panic recorded.
Becomes(n) ==
    LET r == IF n.ppu.panic THEN [Machine EXCEPT !.ppu.panic = TRUE] ELSE n
    IN  /\ cpu' = r.cpu /\ ram' = r.ram /\ cpu_cycles' = r.cpu_cycles
        /\ joypads' = r.joypads /\ ppu' = r.ppu /\ watch' = r.watch /\ step' = r.step

\* cpu_cycles_for_frame of dendy_run: (341 * 262) / 3 rounded to the nearest
cpu_cycles_for_frame == (2 * CYCLES_TO_DRAW_SCANLINE * SCANLINES_COUNT + 3) \div 6

\* The frame driver outside clock_cpu
DrvIdle == [ running |-> FALSE, cycles |-> 0, returns |-> 0, entry_pulses |-> 0 ]

\* What a register access sees of the PPU: the write toggle, V, T, fine X
\* and the $2007 read buffer
PpuRegs(p) ==
    [ latch |-> p.latch, v |-> p.address_register, t |-> p.temp_address_register,
      fine_x |-> p.fine_x, data_buffer |-> p.data_buffer ]

\* The record of the register accesses made so far, before the first one:
\*   ops     how many accesses were made,
\*   kind, addr, value, ret   the last access ("read" or "write"), the value
\*           written or the value returned,
\*   pre     PpuRegs before the last access,
\*   parity  the parity of the number of $2005 and $2006 writes since the
\*           last $2002 read,
\*   w6, hi  1 after a $2006 write made with the toggle clear (hi is the value
\*           written), 2 after the $2006 write that follows it at once,
\*   seq     the number of $2007 reads made in a row since V was set by such
\*           a pair of writes to an address below $3F00 (0: none),
\*   at      the address the last read of that sequence was made at,
\*   expect  the buffer before the sequence's first read; for a later read,
\*           the byte stored at the address the read before it was made at.
RegNew ==
    [ ops |-> 0, kind |-> "none", addr |-> 0, value |-> 0, ret |-> 0,
      pre |-> PpuRegs(ppu_new), parity |-> 0, w6 |-> 0, hi |-> 0,
      seq |-> 0, at |-> 0, expect |-> 0 ]

\* The record after one more access (kind, addr, value, ret) that took the
\* PPU from p to q
Track(r, p, q, kind, addr, value, ret) ==
    LET w6 == IF kind = "write" /\ addr = 8198
              THEN IF ~p.latch THEN 1 ELSE IF r.w6 = 1 THEN 2 ELSE 0
              ELSE 0
        started == r.w6 = 2 /\ address(p.address_register) < PALETTE_PAGE_START
        seq == IF kind = "read" /\ addr = 8199 /\ (started \/ r.seq >= 1)
               THEN r.seq + 1 ELSE 0
    IN  [ ops |-> r.ops + 1, kind |-> kind, addr |-> addr, value |-> value, ret |-> ret,
          pre |-> PpuRegs(p),
          parity |-> IF kind = "write" /\ addr \in {8197, 8198} THEN 1 - r.parity
                     ELSE IF kind = "read" /\ addr = 8194 THEN 0
                     ELSE r.parity,
          w6 |-> w6,
          hi |-> IF w6 = 1 THEN value ELSE IF w6 = 2 THEN r.hi ELSE 0,
          seq |-> seq,
          at |-> IF seq >= 1 THEN address(p.address_register) ELSE 0,
          expect |-> IF seq = 1 THEN p.data_buffer
                     ELSE IF seq >= 2 THEN read_u8(p, rom, r.at)
                     ELSE 0 ]

\* The record of the last access made by the specifications below that
\* observe single accesses, before the first one:
\*   ops     how many accesses were made,
\*   kind, addr, value, ret   the access ("read" or "write") and its address,
\*           the value written, the value returned,
\*   pre     the PPU before the access,
\*   before, after   the bytes read at the four name tables, at the offset
\*           written, before and after a name-table write,
\*   at_v, under   the PPU bytes at V and at V - $1000 before a bus access,
\*   at_v_after    the PPU byte at that V after it,
\*   twin    the PPU the same bus access made at addr & $2007 leaves, and
\*           the value it returns,
\*   entry   the CPU registers, the RAM and cpu_cycles before a CPU step or
\*           a reset (kind "step" or "reset"),
\*   call, out   the arguments a function is called with, drawn when the
\*           machine is set up, and what the call returned.
AccNew ==
    [ ops |-> 0, kind |-> "none", addr |-> 0, value |-> 0, ret |-> 0,
      pre |-> ppu_new, before |-> << >>, after |-> << >>,
      at_v |-> 0, under |-> 0, at_v_after |-> 0,
      twin |-> [ ppu |-> ppu_new, ret |-> 0 ],
      entry |-> [ cpu |-> << >>, ram |-> << >>, cpu_cycles |-> 0 ],
      call |-> [ fn |-> "none", addr |-> 0, value |-> 0, bytes |-> << >> ],
      out |-> << >> ]

\* dendy_run up to its event loop: the cartridge is loaded, the machine built
Init ==
    /\ rom \in Roms
    /\ \E m \in { MachineNew(rom) } :
          /\ cpu = m.cpu /\ ram = m.ram /\ cpu_cycles = m.cpu_cycles
          /\ joypads = m.joypads /\ ppu = m.ppu /\ watch = m.watch /\ step = m.step
    /\ drv = DrvIdle
    /\ reg = RegNew
    /\ acc = AccNew

\* Loop::Update: clock_cpu(cpu, cpu_cycles_for_frame) is entered
ClockCpuEnter ==
    /\ ~drv.running /\ ~ppu.panic /\ cpu_cycles < MaxCpuCycles
    /\ drv' = [drv EXCEPT !.running = TRUE, !.cycles = 0, !.entry_pulses = watch.pulses]
    /\ UNCHANGED << rom, cpu, ram, cpu_cycles, joypads, ppu, watch, step, reg, acc >>

\* One iteration of the while loop of clock_cpu: a whole cpu_step
CpuStep ==
    /\ drv.running /\ ~ppu.panic /\ cpu_cycles < MaxCpuCycles
    /\ drv.cycles < cpu_cycles_for_frame
    /\ \E n \in { cpu_step(Machine, rom) } :
          /\ Becomes(n)
          /\ drv' = [drv EXCEPT !.cycles = @ + n.step.elapsed]
    /\ UNCHANGED << rom, reg, acc >>

\* The while loop of clock_cpu ends: clock_cpu returns
ClockCpuReturn ==
    /\ drv.running /\ drv.cycles >= cpu_cycles_for_frame
    /\ drv' = [drv EXCEPT !.running = FALSE, !.returns = @ + 1]
    /\ UNCHANGED << rom, cpu, ram, cpu_cycles, joypads, ppu, watch, step, reg, acc >>

Next == ClockCpuEnter \/ CpuStep \/ ClockCpuReturn

Spec == Init /\ [][Next]_vars

(***************************************************************************)
(* The PPU registers as the bus presents them: a program's accesses to     *)
(* $2000..$2007 one after another, with rendering off, so that the PPU     *)
(* ticks between them change nothing the accesses read or write.           *)
(***************************************************************************)
\* The PPU register addresses $2000..$2007 of the bus
RegAddrs == 8192 .. 8199

\* The bytes a program writes: $3E and $FF
Values == { 62, 255 }

\* A program's writes that fill PPU memory before the accesses start:
\* palette[0] = $2A, the nametable byte at $3EFF = $11, and the nametable
\* bytes at $3E3E..$3E41 = $AA, $BB, $CC, $DD
Preload ==
    << << 8198, 63 >>, << 8198, 0 >>, << 8199, 42 >>,
       << 8198, 62 >>, << 8198, 255 >>, << 8199, 17 >>,
       << 8198, 62 >>, << 8198, 62 >>,
       << 8199, 170 >>, << 8199, 187 >>, << 8199, 204 >>, << 8199, 221 >> >>

RECURSIVE Writes(_, _, _)
\* Bus::write_memory_u8 for each << index, value >> of ws in turn
Writes(m, r, ws) ==
    IF ws = << >> THEN m
    ELSE Then(write_memory_u8(m, r, Head(ws)[1], Head(ws)[2]), LAMBDA n :
         Then(Tail(ws), LAMBDA rest : Writes(n, r, rest)))

\* The machine at power-on, or after the Preload writes
InitReg ==
    /\ rom \in Roms
    /\ \E new \in { MachineNew(rom) } : \E m \in { new, Writes(new, rom, Preload) } :
          /\ cpu = m.cpu /\ ram = m.ram /\ cpu_cycles = m.cpu_cycles
          /\ joypads = m.joypads /\ ppu = m.ppu /\ watch = m.watch /\ step = m.step
    /\ drv = DrvIdle
    /\ reg = RegNew
    /\ acc = AccNew

\* Bus::write_memory_u8(index, value) at a PPU register
BusWrite ==
    /\ ~ppu.panic /\ reg.ops < MaxOps
    /\ \E index \in RegAddrs, value \in Values :
          \E n \in { write_memory_u8(Machine, rom, index, value) } :
              /\ Becomes(n)
              /\ reg' = Track(reg, ppu, n.ppu, "write", index, value, 0)
    /\ UNCHANGED << rom, drv, acc >>

\* Bus::read_memory_u8(index) at a PPU register
BusRead ==
    /\ ~ppu.panic /\ reg.ops < MaxOps
    /\ \E index \in RegAddrs :
          \E n \in { read_memory_u8(Machine, rom, index) } :
              /\ Becomes(n)
              /\ reg' = Track(reg, ppu, n.ppu, "read", index, 0,
                              read_memory_value(Machine, rom, index))
    /\ UNCHANGED << rom, drv, acc >>

NextReg == BusWrite \/ BusRead

SpecReg == InitReg /\ [][NextReg]_vars

(***************************************************************************)
(* PPU memory as PPU::write_u8 and PPU::read_u8 present it: writes to the   *)
(* name tables, each followed by reads of the byte at the same offset of    *)
(* the four name tables $2000, $2400, $2800, $2C00.                         *)
(***************************************************************************)
\* Number of name-table writes explored by SpecVram.
MaxVramWrites == 2

\* The start addresses of the four name tables
NameTables == << 8192, 9216, 10240, 11264 >>

\* The offsets k written: the first, the second and the last of a name table
VramOffsets == { 0, 1, 1023 }

\* PPU::read_u8 at offset k of each of the four name tables
Tables(p, r, k) == [ i \in 1..4 |-> read_u8(p, r, NameTables[i] + k) ]

\* PPU::write_u8(address, value) at offset k of name table i, then PPU::read_u8
\* at offset k of the four name tables
PpuWrite ==
    /\ ~ppu.panic /\ acc.ops < MaxVramWrites
    /\ \E i \in 1..4, k \in VramOffsets, value \in Values :
          \E q \in { write_u8(ppu, rom, NameTables[i] + k, value) } :
              /\ ppu' = q
              /\ acc' = [AccNew EXCEPT !.ops = acc.ops + 1, !.kind = "write",
                                       !.addr = NameTables[i] + k, !.value = value,
                                       !.pre = ppu, !.before = Tables(ppu, rom, k),
                                       !.after = Tables(q, rom, k)]
    /\ UNCHANGED << rom, cpu, ram, cpu_cycles, joypads, watch, step, drv, reg >>

NextVram == PpuWrite

SpecVram == Init /\ [][NextVram]_vars

(***************************************************************************)
(* The bus at $2000..$3FFF: accesses to the PPU registers and to their     *)
(* mirrors $2008..$3FFF, each observed together with what the same access  *)
(* made at addr & $2007 does.                                              *)
(***************************************************************************)
\* Length of the access sequences explored by SpecBus.
MaxAccesses == 3

\* Addresses of the page $2008..$3FFF: $200A, $200E, $200F and $3FFF
MirrorAddrs == { 8202, 8206, 8207, 16383 }

\* index & IO_MIRROR_MASK for an index of the page $2008..$3FFF
Mirrored(index) ==
    IF index >= 8200 /\ index <= 16383 THEN 8192 + (index % 8) ELSE index

\* The Preload writes, then palette[$1F] = $2A written through $2007 at
\* V = $3FFF, which leaves V = $4000
PreloadTop == Preload \o << << 8198, 63 >>, << 8198, 255 >>, << 8199, 42 >> >>

\* The machine at power-on, after the Preload writes, or after the PreloadTop
\* writes
InitBus ==
    /\ rom \in Roms
    /\ \E new \in { MachineNew(rom) } :
       \E m \in { new, Writes(new, rom, Preload), Writes(new, rom, PreloadTop) } :
          /\ cpu = m.cpu /\ ram = m.ram /\ cpu_cycles = m.cpu_cycles
          /\ joypads = m.joypads /\ ppu = m.ppu /\ watch = m.watch /\ step = m.step
    /\ drv = DrvIdle
    /\ reg = RegNew
    /\ acc = AccNew

\* The observation of one bus access that takes the machine to n and
\* returns ret, while the same access at addr & $2007 takes it to t and
\* returns tret
Access(kind, index, value, n, ret, t, tret) ==
    LET v == address(ppu.address_register)
    IN  [AccNew EXCEPT
            !.ops = acc.ops + 1, !.kind = kind, !.addr = index, !.value = value,
            !.ret = ret, !.pre = ppu,
            !.at_v = read_u8(ppu, rom, v),
            !.under = read_u8(ppu, rom, (v - 4096) % 65536),
            !.at_v_after = read_u8(n.ppu, rom, v),
            !.twin = [ ppu |-> IF t.ppu.panic THEN [ppu EXCEPT !.panic = TRUE] ELSE t.ppu,
                       ret |-> tret ]]

\* Bus::write_memory_u8(index, value) at a PPU register or a mirror
WriteAt ==
    /\ ~ppu.panic /\ acc.ops < MaxAccesses
    /\ \E index \in RegAddrs \cup MirrorAddrs, value \in Values :
          \E n \in { write_memory_u8(Machine, rom, index, value) },
             t \in { write_memory_u8(Machine, rom, Mirrored(index), value) } :
              /\ Becomes(n)
              /\ acc' = Access("write", index, value, n, 0, t, 0)
    /\ UNCHANGED << rom, drv, reg >>

\* Bus::read_memory_u8(index) at a PPU register or a mirror
ReadAt ==
    /\ ~ppu.panic /\ acc.ops < MaxAccesses
    /\ \E index \in RegAddrs \cup MirrorAddrs :
          \E n \in { read_memory_u8(Machine, rom, index) },
             t \in { read_memory_u8(Machine, rom, Mirrored(index)) } :
              /\ Becomes(n)
              /\ acc' = Access("read", index, 0, n, read_memory_value(Machine, rom, index),
                               t, read_memory_value(Machine, rom, Mirrored(index)))
    /\ UNCHANGED << rom, drv, reg >>

NextBus == WriteAt \/ ReadAt

SpecBus == InitBus /\ [][NextBus]_vars

(***************************************************************************)
(* The CPU alone: one instruction placed in RAM, the registers it is       *)
(* executed with, and the cpu_step that executes it; or a reset.           *)
(***************************************************************************)
\* Number of CPU steps and resets explored by SpecCpu.
MaxSteps == 1

\* The opcodes of BPL, BMI, BVC, BVS, BCC, BCS, BNE, BEQ
Branches == { 16, 48, 80, 112, 144, 176, 208, 240 }

\* Addresses an instruction is placed at: $0200, and $02FD, $02FE, from
\* where the instruction's end or a short jump reaches the next page
Starts == { 512, 765, 766 }

\* Offset bytes of a branch
Offsets == { 0, 1, 127, 128, 254, 255 }

\* Values of A and of an immediate operand
AluBytes == { 0, 1, 16, 127, 128, 245, 255 }

\* Status bytes: Unused alone; with one of Carry, Zero, InterruptDisable,
\* Overflow, Negative; with all of Carry, Zero, Overflow, Negative, and
\* those with InterruptDisable too
Statuses == { 32, 33, 34, 36, 96, 160, 227, 231 }

\* The opcodes of ASL, LSR, ROL and ROR, each in the order accumulator,
\* zero page, zero page X, absolute, absolute X
ShiftOpcodes ==
    << << 10, 6, 22, 14, 30 >>, << 74, 70, 86, 78, 94 >>,
       << 42, 38, 54, 46, 62 >>, << 106, 102, 118, 110, 126 >> >>

\* The instructions executed, each with the registers it is executed with
\* and mem, the bytes placed in RAM besides the opcode and its first operand
\* byte, as << address, byte >>:
\*   the branches, ADC and SBC immediate, BRK;
\*   the shifts and rotates of the bytes 0, 1, $40, $80, $81, $FF with each
\*   choice of Carry and Zero: on A; on $0010; on $F8 + X = $08 in the zero
\*   page; on $0310; on $03F8 + X, in page $03 or $04;
\*   LDA abs,X, STA abs,X, LDA abs,Y, LDX abs,Y, STA abs,Y at $03F8, and
\*   LDA (zp),Y, STA (zp),Y with the pointer $03F8 at $20/$21 or at $FF/$00,
\*   with index register values that stay in page $03 (0, 7) or reach page
\*   $04 (8, 255): the byte $5A is at the indexed address, A holds $A5
Programs ==
    LET Shifted(mode) == { ShiftOpcodes[k][mode] : k \in 1..4 }
        data == { 0, 1, 64, 128, 129, 255 }
        cz == { 32, 33, 34, 35 }
        indexes == { 0, 7, 8, 255 }
    IN  [ opcode : Branches, operand : Offsets, a : { 0 }, sp : { 253 },
          status : Statuses \ { 36, 231 }, start : Starts,
          x : { 0 }, y : { 0 }, mem : { << >> } ]
        \cup [ opcode : { 105, 233 }, operand : AluBytes, a : AluBytes, sp : { 253 },
               status : { 32, 33, 226, 227 }, start : { 512 },
               x : { 0 }, y : { 0 }, mem : { << >> } ]
        \cup [ opcode : { 0 }, operand : { 0 }, a : { 0 }, sp : { 253, 1, 0 },
               status : Statuses, start : Starts,
               x : { 0 }, y : { 0 }, mem : { << >> } ]
        \cup [ opcode : Shifted(1), operand : { 0 }, a : data, sp : { 253 },
               status : cz, start : { 512 }, x : { 0 }, y : { 0 }, mem : { << >> } ]
        \cup [ opcode : Shifted(2), operand : { 16 }, a : { 0 }, sp : { 253 },
               status : cz, start : { 512 }, x : { 0 }, y : { 0 },
               mem : { << << 16, d >> >> : d \in data } ]
        \cup [ opcode : Shifted(3), operand : { 248 }, a : { 0 }, sp : { 253 },
               status : cz, start : { 512 }, x : { 16 }, y : { 0 },
               mem : { << << 8, d >> >> : d \in data } ]
        \cup [ opcode : Shifted(4), operand : { 16 }, a : { 0 }, sp : { 253 },
               status : cz, start : { 512 }, x : { 0 }, y : { 0 },
               mem : { << << 514, 3 >>, << 784, d >> >> : d \in data } ]
        \cup { [ opcode |-> op, operand |-> 248, a |-> 0, sp |-> 253, status |-> s,
                 start |-> 512, x |-> i, y |-> 0,
                 mem |-> << << 514, 3 >>, << 1016 + i, d >> >> ] :
               op \in Shifted(5), s \in cz, i \in { 7, 8 }, d \in data }
        \cup { [ opcode |-> op, operand |-> 248, a |-> 165, sp |-> 253, status |-> 32,
                 start |-> 512, x |-> i, y |-> 0,
                 mem |-> << << 514, 3 >>, << 1016 + i, 90 >> >> ] :
               op \in { 189, 157 }, i \in indexes }
        \cup { [ opcode |-> op, operand |-> 248, a |-> 165, sp |-> 253, status |-> 32,
                 start |-> 512, x |-> 0, y |-> i,
                 mem |-> << << 514, 3 >>, << 1016 + i, 90 >> >> ] :
               op \in { 185, 190, 153 }, i \in indexes }
        \cup { [ opcode |-> op, operand |-> p, a |-> 165, sp |-> 253, status |-> 32,
                 start |-> 512, x |-> 0, y |-> i,
                 mem |-> << << p, 248 >>, << (p + 1) % 256, 3 >>, << 1016 + i, 90 >> >> ] :
               op \in { 177, 145 }, p \in { 32, 255 }, i \in indexes }

RECURSIVE Placed(_, _)
\* ram with each << address, byte >> of tuple ws placed
Placed(mem, ws) ==
    IF ws = << >> THEN mem
    ELSE Then(Poke(mem, Head(ws)[1], Head(ws)[2]), LAMBDA placed :
              Placed(placed, Tail(ws)))

\* The machine after power-on with program g in RAM and the CPU about to
\* execute it
Loaded(m, g) ==
    Then(Poke(m.ram, g.start, g.opcode), LAMBDA r1 :
    Then(Poke(r1, g.start + 1, g.operand), LAMBDA r2 :
    Then(Placed(r2, g.mem), LAMBDA r3 :
    [m EXCEPT !.ram = r3,
              !.cpu = [ register_a |-> g.a, register_x |-> g.x, register_y |-> g.y,
                        stack_pointer |-> g.sp, program_pointer |-> g.start,
                        status |-> g.status ]])))

\* A program of Programs in RAM, the CPU about to execute it
InitCpu ==
    /\ rom \in Roms
    /\ \E new \in { MachineNew(rom) } : \E g \in Programs : \E m \in { Loaded(new, g) } :
          /\ cpu = m.cpu /\ ram = m.ram /\ cpu_cycles = m.cpu_cycles
          /\ joypads = m.joypads /\ ppu = m.ppu /\ watch = m.watch /\ step = m.step
    /\ drv = DrvIdle
    /\ reg = RegNew
    /\ acc = AccNew

\* The record of a step or a reset made from the current state
Entered(kind) ==
    [AccNew EXCEPT !.ops = acc.ops + 1, !.kind = kind,
                   !.entry = [ cpu |-> cpu, ram |-> ram, cpu_cycles |-> cpu_cycles ]]

\* CPU::cpu_step
Step ==
    /\ ~ppu.panic /\ acc.ops < MaxSteps
    /\ \E n \in { cpu_step(Machine, rom) } : Becomes(n)
    /\ acc' = Entered("step")
    /\ UNCHANGED << rom, drv, reg >>

\* CPU::reset
Reset ==
    /\ ~ppu.panic /\ acc.ops < MaxSteps
    /\ \E n \in { reset(Machine, rom) } : Becomes(n)
    /\ acc' = Entered("reset")
    /\ UNCHANGED << rom, drv, reg >>

NextCpu == Step \/ Reset

SpecCpu == InitCpu /\ [][NextCpu]_vars

(***************************************************************************)
(* Single calls of the functions of the CPU, the PPU and the cartridge:    *)
(* the arguments are drawn when the machine is set up, and each function   *)
(* is called with the arguments drawn for it.                              *)
(***************************************************************************)
\* How many calls are made from one set-up.
MaxCalls == 1

\* How many joypad events and accesses of a joypad port are made.
MaxPadOps == 12

\* How many accesses of a cartridge are made.
MaxCartOps == 3

\* The arguments drawn, as [ fn, addr, value, bytes ]:
\*   "stack"   push_stack_u8(value) then pop_stack_u8 with the stack pointer
\*             at addr: every stack pointer, the bytes 0, 1, $5A, $80, $FF
\*   "palette" PPU::write_u8(addr, value) at every address $3F00..$3F1F, the
\*             bytes 1 and $3F
\*   "draw"    Bus::tick(1) after the byte value was written at $3F00: the
\*             bytes $0D, $3F, $40, $FF
\*   "pad"     writes and reads of the joypad port addr ($4016 or $4017),
\*             with presses and releases of the buttons of that joypad
\*   "uxrom"   CPU writes and reads of a UxROM cartridge of value PRG banks
\*   "chr"     map_ppu_read(addr) and map_ppu_write(addr) of an NROM mapper
\*             of value CHR banks, at PPU addresses in $0000..$1FFF
\*   "load"    Cartridge::new on a ROM file that starts with bytes and has
\*             value bytes more: the headers of Headers, followed by
\*             nothing, by one bank and by what one or two PRG banks, a CHR
\*             bank and a trainer need, one byte less and one byte more
\*   "scroll"  PPU::increment_scroll_x and PPU::increment_scroll_y with V
\*             at addr (name table, coarse Y, coarse X), fine Y at bytes[1]
\*             and the mask register at value
\*   "nmi"     CPU::cpu_step with an NMI pending and RTI at the NMI vector,
\*             the stack pointer at addr, the status register at value and
\*             the program counter at bytes[1]
\*   "pads"    a write at the joypad port addr when joypad 1 has the buttons
\*             value pressed and joypad 2 the buttons bytes[1], and their
\*             shift registers hold bytes[2] and bytes[3]
Headers ==
    { name \o << prg, chr, flags_1, flags_2, 0, 0, 0, 0, 0, 0, 0, 0 >> :
        name \in { << 78, 69, 83, 26 >>, << 88, 69, 83, 26 >>, << 78, 69, 83, 0 >> },
        prg \in { 1, 2 }, chr \in { 0, 1 },
        flags_1 \in { 0, 1, 4, 8, 16, 32 }, flags_2 \in { 0, 8, 16, 32 } }
    \cup { SubSeq(<< 78, 69, 83, 26, 1, 0, 0, 0, 0, 0, 0, 0, 0, 0, 0, 0 >>, 1, n) :
             n \in { 0, 3, 7, 10, 15 } }

Calls ==
    [ fn : { "stack" }, addr : 0..255, value : { 0, 1, 90, 128, 255 }, bytes : { << >> } ]
    \cup [ fn : { "palette" }, addr : PALETTE_PAGE_START .. PALETTE_PAGE_START + 31,
           value : { 1, 63 }, bytes : { << >> } ]
    \cup [ fn : { "draw" }, addr : { PALETTE_PAGE_START }, value : { 13, 63, 64, 255 },
           bytes : { << >> } ]
    \cup [ fn : { "pad" }, addr : { 16406, 16407 }, value : { 0 }, bytes : { << >> } ]
    \cup [ fn : { "uxrom" }, addr : { 0 }, value : { 1, 2, 8, 16 }, bytes : { << >> } ]
    \cup [ fn : { "chr" }, addr : { 0, 1, 2, 255, 4095, 4096, 8190, 8191 },
           value : { 0, 1, 2, 4 }, bytes : { << >> } ]
    \cup [ fn : { "load" }, addr : { 0 },
           value : { 0, 16383, 16384, 16385, 16896, 24576, 32768 }, bytes : Headers ]
    \cup [ fn : { "scroll" },
           addr : { table * 1024 + coarse_y * 32 + coarse_x :
                      table \in 0..3, coarse_y \in { 0, 28, 29, 30, 31 },
                      coarse_x \in { 0, 30, 31 } },
           value : { 0, 8, 16, 24 }, bytes : { << 0 >>, << 6 >>, << 7 >> } ]
    \cup [ fn : { "nmi" }, addr : { 0, 1, 2, 3, 128, 253, 255 },
           value : { 32, 33, 34, 36, 40, 96, 160, 231 },
           bytes : { << 512 >>, << 32770 >>, << 33023 >>, << 65535 >> } ]
    \cup [ fn : { "pads" }, addr : { 16406, 16407 }, value : { 0, 1, 128, 255 },
           bytes : { << pressed, first, second >> :
                       pressed \in { 0, 16, 129 }, first \in { 0, 2, 128 },
                       second \in { 0, 64, 255 } } ]

\* The machine a call of Calls is made in:
\*   "stack"   the machine at power-on with the stack pointer at addr,
\*   "palette" the machine after a program wrote the bytes $40, $41, ...,
\*             $47 through $2007 from V = $3F0C on,
\*   "draw"    the machine after a program wrote value through $2007 at
\*             V = addr,
\*   "pad"     the machine at power-on,
\*   "scroll"  the machine after a program wrote value to $2001, addr
\*             through $2006 and fine Y through $2005,
\*   "nmi"     the machine with the CPU registers drawn, when the PPU has
\*             raised its NMI,
\*   "pads"    the machine after the presses, releases, strobes and reads
\*             that leave the joypads as drawn;
\* the calls on a cartridge leave the machine alone
Prepared(m, r, c) ==
    CASE c.fn = "stack" -> [m EXCEPT !.cpu.stack_pointer = c.addr]
      [] c.fn = "palette" ->
            Writes(m, r, << << 8198, 63 >>, << 8198, 12 >> >>
                         \o [ i \in 1..8 |-> << 8199, 63 + i >> ])
      [] c.fn = "draw" ->
            Writes(m, r, << << 8198, c.addr \div 256 >>, << 8198, c.addr % 256 >>,
                            << 8199, c.value >> >>)
      [] c.fn = "scroll" ->
            Writes(m, r, << << 8193, c.value >>, << 8198, c.addr \div 256 >>,
                            << 8198, c.addr % 256 >>, << 8197, 0 >>,
                            << 8197, c.bytes[1] >> >>)
      [] c.fn = "nmi" ->
            [m EXCEPT !.cpu.stack_pointer = c.addr, !.cpu.status = c.value,
                      !.cpu.program_pointer = c.bytes[1], !.ppu.nmi_interrupt = TRUE]
      [] c.fn = "pads" ->
            [m EXCEPT !.joypads =
                << [ state |-> c.bytes[2], buttons_pressed |-> c.value ],
                   [ state |-> c.bytes[3], buttons_pressed |-> c.bytes[1] ] >>]
      [] OTHER -> m

\* The cartridge a call of Calls is made on: the cartridge of the machine,
\* or the cartridge the call names
Loaded_cartridge(c) ==
    IF c.fn = "uxrom" THEN UxRomCartridge(c.value)
    ELSE IF c.fn = "nmi" THEN RomNmiRender ELSE RomPoll

\* The machine and the cartridge set up for one call of Calls
InitCalls ==
    /\ \E c \in Calls : \E m \in { Prepared(MachineNew(RomPoll), RomPoll, c) } :
          /\ rom = Loaded_cartridge(c)
          /\ cpu = m.cpu /\ ram = m.ram /\ cpu_cycles = m.cpu_cycles
          /\ joypads = m.joypads /\ ppu = m.ppu /\ watch = m.watch /\ step = m.step
          /\ acc = [AccNew EXCEPT !.call = c]
    /\ drv = DrvIdle
    /\ reg = RegNew

\* The record of a call of kind that returned out, made from the current state
Called(kind, out) ==
    [Entered(kind) EXCEPT !.call = acc.call, !.out = out]

\* CPU::push_stack_u8(value), then CPU::pop_stack_u8
PushPop ==
    /\ acc.call.fn = "stack" /\ acc.ops < MaxCalls
    /\ \E pushed \in { push_stack_u8(Machine, rom, acc.call.value) } :
       \E n \in { pop_stack_u8(pushed, rom) } :
          /\ Becomes(n)
          /\ acc' = Called("push_pop", << StackTop(n, rom), pushed.cpu.stack_pointer >>)
    /\ UNCHANGED << rom, drv, reg >>

\* The bytes PPU::read_u8 returns at $3F00, ..., $3F1F
PaletteBytes(p, r) == [ i \in 1..32 |-> read_u8(p, r, PALETTE_PAGE_START + i - 1) ]

\* PPU::write_u8(addr, value) at a palette address, between two readings of
\* the palette
PaletteWrite ==
    /\ acc.call.fn = "palette" /\ acc.ops < MaxCalls
    /\ \E q \in { write_u8(ppu, rom, acc.call.addr, acc.call.value) } :
          /\ Becomes([Machine EXCEPT !.ppu = q])
          /\ acc' = Called("palette", << PaletteBytes(ppu, rom), PaletteBytes(q, rom) >>)
    /\ UNCHANGED << rom, drv, reg >>

\* Bus::tick(1): three PPU ticks
Tick ==
    /\ acc.call.fn = "draw" /\ acc.ops < MaxCalls
    /\ \E n \in { bus_tick(Machine, rom, 1) } :
          /\ Becomes(n)
          /\ acc' = Called("tick", << >>)
    /\ UNCHANGED << rom, drv, reg >>

\* The joypad of the port drawn: 1 for $4016, 2 for $4017
Pad == (acc.call.addr % 2) + 1

\* handle_user_1_input, handle_user_2_input with a key pressed:
\* Joypad::press_button
Press ==
    /\ acc.call.fn = "pad" /\ acc.ops < MaxPadOps
    /\ \E button \in { "A", "START", "RIGHT" } :
          joypads' = [joypads EXCEPT ![Pad].buttons_pressed = BitOr(@, JoypadButtons[button])]
    /\ acc' = [acc EXCEPT !.ops = @ + 1]
    /\ UNCHANGED << rom, cpu, ram, cpu_cycles, ppu, watch, step, drv, reg >>

\* handle_user_1_input, handle_user_2_input with a key released:
\* Joypad::release_button
Release ==
    /\ acc.call.fn = "pad" /\ acc.ops < MaxPadOps
    /\ \E button \in { "A", "START", "RIGHT" } :
          joypads' = [joypads EXCEPT ![Pad].buttons_pressed =
                                        BitAnd(@, 255 - JoypadButtons[button])]
    /\ acc' = [acc EXCEPT !.ops = @ + 1]
    /\ UNCHANGED << rom, cpu, ram, cpu_cycles, ppu, watch, step, drv, reg >>

\* Bus::write_memory_u8(addr, 1) at the joypad port: the strobe.  acc.value
\* holds the buttons pressed at that moment, acc.out the bytes read since.
Strobe ==
    /\ acc.call.fn = "pad" /\ acc.ops < MaxPadOps
    /\ \E n \in { write_memory_u8(Machine, rom, acc.call.addr, 1) } :
          /\ Becomes(n)
          /\ acc' = [acc EXCEPT !.ops = @ + 1, !.kind = "strobe",
                                !.value = joypads[Pad].buttons_pressed, !.out = << >>]
    /\ UNCHANGED << rom, drv, reg >>

\* Bus::read_memory_u8(addr) at the joypad port
PadRead ==
    /\ acc.call.fn = "pad" /\ acc.ops < MaxPadOps
    /\ \E n \in { read_memory_u8(Machine, rom, acc.call.addr) } :
          /\ Becomes(n)
          /\ acc' = [acc EXCEPT !.ops = @ + 1,
                                !.out = Append(@, read_memory_value(Machine, rom, acc.call.addr))]
    /\ UNCHANGED << rom, drv, reg >>

\* Cartridge::cpu_write_u8(addr, value) at an address in $8000..$FFFF;
\* acc.addr and acc.value hold the last write
CpuWrite ==
    /\ acc.call.fn = "uxrom" /\ acc.ops < MaxCartOps
    /\ \E a \in { 32768, 49151, 49152, 65535 } : \E v \in { 0, 1, 7, 15, 16, 23, 255 } :
          /\ rom' = uxrom_cpu_write_u8(rom, a, v)
          /\ acc' = [acc EXCEPT !.ops = @ + 1, !.kind = "cpu_write",
                                !.addr = a, !.value = v, !.out = << >>]
    /\ UNCHANGED << cpu, ram, cpu_cycles, joypads, ppu, watch, step, drv, reg >>

\* Cartridge::cpu_read_u8(addr); acc.out holds the address, whether the
\* read returned, and the byte it returned
CpuRead ==
    /\ acc.call.fn = "uxrom" /\ acc.ops < MaxCartOps
    /\ \E a \in { 32768, 32769, 49151, 49152, 65535 } :
          acc' = [acc EXCEPT !.ops = @ + 1, !.kind = "cpu_read",
                             !.out = << a >> \o uxrom_cpu_read_u8(rom, a)]
    /\ UNCHANGED << rom, cpu, ram, cpu_cycles, joypads, ppu, watch, step, drv, reg >>

\* NROMMapper::map_ppu_read(addr) and NROMMapper::map_ppu_write(addr, _)
PpuMap ==
    /\ acc.call.fn = "chr" /\ acc.ops < MaxCalls
    /\ acc' = Called("ppu_map", << map_ppu_read(acc.call.value, acc.call.addr),
                                   map_ppu_write(acc.call.value, acc.call.addr) >>)
    /\ UNCHANGED << rom, cpu, ram, cpu_cycles, joypads, ppu, watch, step, drv, reg >>

\* Cartridge::new on the ROM file drawn: acc.out holds what it built
Load ==
    /\ acc.call.fn = "load" /\ acc.ops < MaxCalls
    /\ acc' = Called("new", << Cartridge_new(acc.call.bytes, acc.call.value) >>)
    /\ UNCHANGED << rom, cpu, ram, cpu_cycles, joypads, ppu, watch, step, drv, reg >>

\* PPU::increment_scroll_x; acc.pre holds the PPU it was called on
ScrollX ==
    /\ acc.call.fn = "scroll" /\ acc.ops < MaxCalls
    /\ ppu' = increment_scroll_x(ppu)
    /\ acc' = [Called("scroll_x", << >>) EXCEPT !.pre = ppu]
    /\ UNCHANGED << rom, cpu, ram, cpu_cycles, joypads, watch, step, drv, reg >>

\* PPU::increment_scroll_y; acc.pre holds the PPU it was called on
ScrollY ==
    /\ acc.call.fn = "scroll" /\ acc.ops < MaxCalls
    /\ ppu' = increment_scroll_y(ppu)
    /\ acc' = [Called("scroll_y", << >>) EXCEPT !.pre = ppu]
    /\ UNCHANGED << rom, cpu, ram, cpu_cycles, joypads, watch, step, drv, reg >>

\* CPU::cpu_step with the NMI pending: the NMI is serviced and the opcode
\* at the NMI vector, an RTI, is executed; acc.entry holds the CPU before
NmiRti ==
    /\ acc.call.fn = "nmi" /\ acc.ops < MaxCalls /\ ppu.nmi_interrupt
    /\ \E n \in { cpu_step(Machine, rom) } : Becomes(n)
    /\ acc' = Called("nmi_rti", << >>)
    /\ UNCHANGED << rom, drv, reg >>

\* Bus::write_memory_u8(addr, value) at a joypad port; acc.before holds the
\* joypads before the write
PortWrite ==
    /\ acc.call.fn = "pads" /\ acc.ops < MaxCalls
    /\ \E value \in { 0, 1 } : \E n \in { write_memory_u8(Machine, rom, acc.call.addr, value) } :
          Becomes(n)
    /\ acc' = [Called("port_write", << >>) EXCEPT !.before = joypads]
    /\ UNCHANGED << rom, drv, reg >>

NextCalls ==
    \/ PushPop \/ PaletteWrite \/ Tick \/ Press \/ Release \/ Strobe \/ PadRead
    \/ CpuWrite \/ CpuRead \/ PpuMap \/ Load \/ ScrollX \/ ScrollY \/ NmiRti
    \/ PortWrite

SpecCalls == InitCalls /\ [][NextCalls]_vars

(***************************************************************************)
(* The PPU dot by dot: at power-on a program writes four palette bytes and  *)
(* loads OAM from RAM page 2, waits until dot StartDot of scanline         *)
(* StartLine, writes the control and mask registers, and the PPU ticks on  *)
(* from there.  With the four-screen cartridge the ticks are those that    *)
(* follow PPU::new.                                                        *)
(***************************************************************************)
\* How many PPU ticks are made after the wait.
MaxDots == 450

\* How many register writes are made before the ticks.
MaxSetupWrites == 2

\* Where the wait ends.
StartLine == 7
StartDot == 250

\* The OAM contents loaded, as [ first, others ]: sprite 0 has y = first,
\* the sprites 1, ..., others have y = StartLine, the rest have y = 240 (no
\* scanline is in their rows); every sprite has id 0, attribute 0 and x 0.
OamSetups ==
    [ first : { 0, 240 }, others : { 0, 7, 8, 63 } ]

\* RAM with the OAM contents o in page 2
OamPage(o) ==
    LET Y(i) == IF i = 0 THEN o.first ELSE IF i <= o.others THEN StartLine ELSE 240
    IN  [ a \in { 512 + 4 * i : i \in { j \in 0 .. OAM_SPRITES_COUNT - 1 : Y(j) # 0 } }
            |-> Y((a - 512) \div 4) ]

\* The writes that put $20, $21, $22, $23 at $3F00..$3F03 and V back at 0
PaletteLoad ==
    << << 8198, 63 >>, << 8198, 0 >>, << 8199, 32 >>, << 8199, 33 >>, << 8199, 34 >>,
       << 8199, 35 >>, << 8198, 0 >>, << 8198, 0 >> >>

\* The machine after power-on, the palette writes, the OAM DMA from page 2
\* (Bus::write_memory_u8 at $4014) and the wait (Bus::tick)
Waited(r, o) ==
    Then([MachineNew(r) EXCEPT !.ram = OamPage(o)], LAMBDA m :
    Then(write_memory_u8(Writes(m, r, PaletteLoad), r, 16404, 2), LAMBDA loaded :
    IF loaded.ppu.panic THEN loaded
    ELSE PpuTicks(loaded, r,
                  (StartLine * CYCLES_TO_DRAW_SCANLINE + StartDot)
                  - (loaded.ppu.scanlines * CYCLES_TO_DRAW_SCANLINE + loaded.ppu.cycles))))

\* Whether the rows of OAM sprite i hold scanline line, for the sprite size
\* of the control register of p
InRows(p, i, line) ==
    line - OamSprite(p, i).y >= 0
    /\ line - OamSprite(p, i).y < get_sprite_size(p.control_register)

\* The PPU at the end of the wait, or the PPU of the four-screen cartridge
\* as PPU::new built it.  acc.value says whether the last sprite evaluation
\* found OAM sprite 0 in its rows.
InitPpu ==
    /\ rom \in { RomNmiRender, RomFourScreen }
    /\ \E o \in OamSetups :
       \E m \in { IF rom = RomFourScreen THEN MachineBuilt ELSE Waited(rom, o) } :
          /\ cpu = m.cpu /\ ram = m.ram /\ cpu_cycles = m.cpu_cycles
          /\ joypads = m.joypads /\ ppu = m.ppu /\ watch = m.watch /\ step = m.step
          /\ acc = [AccNew EXCEPT
                       !.value = IF InRows(m.ppu, 0, m.ppu.scanlines - 1) THEN 1 ELSE 0]
    /\ drv = DrvIdle
    /\ reg = RegNew

\* Bus::write_memory_u8 at $2000 or $2001, before the first tick
SetupWrite ==
    /\ ~ppu.panic /\ acc.ops = 0 /\ acc.ret < MaxSetupWrites
    /\ \E w \in { << 8192, 32 >>, << 8193, 30 >>, << 8193, 28 >>, << 8193, 10 >>,
                   << 8193, 8 >> } :
       \E n \in { write_memory_u8(Machine, rom, w[1], w[2]) } :
          /\ Becomes(n)
          /\ acc' = [acc EXCEPT !.ret = @ + 1]
    /\ UNCHANGED << rom, drv, reg >>

\* PPU::tick.  acc.pre holds the PPU before the tick.
Dot ==
    /\ ~ppu.panic /\ acc.ops < MaxDots
    /\ \E q \in { tick(ppu, rom) } :
          /\ ppu' = q
          /\ acc' = [acc EXCEPT
                        !.ops = @ + 1, !.kind = "dot", !.pre = ppu,
                        !.value = IF ppu.scanlines >= 0
                                     /\ ppu.cycles = VISIBLE_SCANLINE_CYCLES + 1
                                  THEN (IF InRows(ppu, 0, ppu.scanlines) THEN 1 ELSE 0)
                                  ELSE @]
    /\ UNCHANGED << rom, cpu, ram, cpu_cycles, joypads, watch, step, drv, reg >>

NextPpu == SetupWrite \/ Dot

SpecPpu == InitPpu /\ [][NextPpu]_vars

(***************************************************************************)
(* One call clock_cpu(cpu, cycles_to_run) from power-on, on the cartridge  *)
(* that renders and takes the NMI, for the values of                       *)
(* cycles_to_run of ClockTargets; acc.call.value holds cycles_to_run.  The *)
(* while loop of clock_cpu is sequential code: the step that can be made   *)
(* (the call, an iteration, the return) is made.                           *)
(***************************************************************************)
\* The CPU cycles in which the PPU ticks through its scanlines -1 ..
\* SCANLINES_COUNT - 1 once, rounded up
cpu_cycles_of_ppu_frame == ((SCANLINES_COUNT + 1) * CYCLES_TO_DRAW_SCANLINE) \div 3 + 1

\* The values of cycles_to_run: nothing, less than one opcode, a few
\* opcodes, a frame of the PPU
ClockTargets == { 0, 1, 2, 1000, cpu_cycles_of_ppu_frame }

InitLive ==
    /\ rom = RomNmiRender
    /\ \E m \in { MachineNew(rom) } :
          /\ cpu = m.cpu /\ ram = m.ram /\ cpu_cycles = m.cpu_cycles
          /\ joypads = m.joypads /\ ppu = m.ppu /\ watch = m.watch /\ step = m.step
    /\ drv = DrvIdle
    /\ reg = RegNew
    /\ \E n \in ClockTargets : acc = [AccNew EXCEPT !.call.fn = "clock_cpu", !.call.value = n]

\* clock_cpu is called: "let mut cycles = 0"
clock_cpu_enter ==
    /\ ~drv.running /\ drv.returns = 0
    /\ drv' = [drv EXCEPT !.running = TRUE, !.cycles = 0, !.entry_pulses = watch.pulses]
    /\ UNCHANGED << rom, cpu, ram, cpu_cycles, joypads, ppu, watch, step, reg, acc >>

\* One iteration of "while cycles < cycles_to_run": a whole cpu_step
clock_cpu_step ==
    /\ drv.running /\ ~ppu.panic /\ cpu_cycles < MaxCpuCycles
    /\ drv.cycles < acc.call.value
    /\ \E n \in { cpu_step(Machine, rom) } :
          /\ Becomes(n)
          /\ drv' = [drv EXCEPT !.cycles = @ + n.step.elapsed]
    /\ UNCHANGED << rom, reg, acc >>

\* The while loop ends: clock_cpu returns
clock_cpu_return ==
    /\ drv.running /\ drv.cycles >= acc.call.value
    /\ drv' = [drv EXCEPT !.running = FALSE, !.returns = @ + 1]
    /\ UNCHANGED << rom, cpu, ram, cpu_cycles, joypads, ppu, watch, step, reg, acc >>

NextLive == clock_cpu_enter \/ clock_cpu_step \/ clock_cpu_return

SpecLive == InitLive /\ [][NextLive]_vars /\ WF_vars(NextLive)

(***************************************************************************)
(* Properties of the frame loop (Spec).                                    *)
(***************************************************************************)
\* C1: with Control.GenerateNMI set throughout a frame, the CPU services
\* exactly one NMI between the two completed_frame pulses that bound the
\* frame, and the PC the service pushes is the address the step would
\* otherwise have fetched its opcode from (the PC on entry to the step, which
\* is where a step without NMI fetches).
C1_OneNmiPerFrame ==
    /\ (watch.pulses >= 2 /\ watch.frame_gen) => watch.frame_nmis = 1
    /\ step.found_nmi => step.pushed_pc = step.entry_pc
    /\ (~step.found_nmi /\ step.fetches > 0) => step.fetched_at = step.entry_pc

\* C1 happens: a frame between two pulses, GenerateNMI set throughout, one
\* NMI serviced in it
C1_FrameWithNmi ==
    watch.pulses >= 2 /\ watch.frame_gen /\ watch.frame_nmis = 1

\* C2: between two consecutive completed_frame pulses the CPU cycle counter
\* advances by 29780 or 29781 cycles.
C2_FrameLength ==
    watch.pulses >= 2 => watch.frame_len \in { 29780, 29781 }

\* C3: when the frame driver has returned, the PPU has raised
\* completed_frame since the driver was entered and the driver has reset
\* completed_frame to false.
C3_DriverConsumesFrame ==
    (~drv.running /\ drv.returns > 0) =>
        (watch.pulses > drv.entry_pulses /\ ~ppu.completed_frame)

\* C4: after every PPU tick the scanline counter is in -1..260 and the dot
\* counter is in 0..340.
C4_Counters ==
    watch.scan_min >= -1 /\ watch.scan_max <= 260 /\ watch.dot_max <= 340

\* C5: Status.VBlank goes from clear to set only in the PPU tick at scanline
\* 241 dot 1, and that tick sets nmi_interrupt iff Control.GenerateNMI is set;
\* VBlank goes from set to clear only by the tick at scanline -1 dot 1, which
\* also clears Sprite0Hit and SpriteOverflow, or by a CPU read of $2002.
C5_VBlankEdges ==
    \A e \in watch.events :
        /\ (~Contains(e.before, VERTICAL_BLANK) /\ Contains(e.after, VERTICAL_BLANK)) =>
              /\ e.by = "tick" /\ e.scanlines = 241 /\ e.cycles = 1
              /\ e.nmi_after = (e.nmi_before \/ e.gen)
        /\ (Contains(e.before, VERTICAL_BLANK) /\ ~Contains(e.after, VERTICAL_BLANK)) =>
              \/ e.by = "read"
              \/ /\ e.by = "tick" /\ e.scanlines = -1 /\ e.cycles = 1
                 /\ ~Contains(e.after, SPRITE_ZERO_HIT)
                 /\ ~Contains(e.after, SPRITE_OVERFLOW)

\* C5 happens: VBlank was set by a tick that raised the NMI, and was cleared
\* by a tick that cleared Sprite0Hit and SpriteOverflow with it
C5_BothEdges ==
    \E rise, fall \in watch.events :
        /\ ~Contains(rise.before, VERTICAL_BLANK) /\ Contains(rise.after, VERTICAL_BLANK)
        /\ rise.gen /\ ~rise.nmi_before /\ rise.nmi_after
        /\ fall.by = "tick"
        /\ Contains(fall.before, VERTICAL_BLANK) /\ ~Contains(fall.after, VERTICAL_BLANK)
        /\ Contains(fall.before, SPRITE_ZERO_HIT) /\ Contains(fall.before, SPRITE_OVERFLOW)

\* C6: a CPU step that finds nmi_interrupt set only services the NMI: it
\* fetches and executes no opcode.
C6_NmiStepFetchesNothing ==
    step.found_nmi => step.fetches = 0

(***************************************************************************)
(* Properties of the PPU registers (SpecReg).                              *)
(***************************************************************************)
\* C7 as stated: in a sequence of $2007 reads made after V was set by two
\* $2006 writes to an address below $3F00, the first read returns the
\* previous content of the read buffer and every later read returns the byte
\* stored at the address the read before it was made at.
C7_ReadLag ==
    reg.seq >= 1 => reg.ret = reg.expect

\* C7, amended: the same, for every later read that is itself made at an
\* address below $3F00.
C7_ReadLagBelowPalette ==
    (reg.seq = 1 \/ (reg.seq >= 2 /\ reg.at < PALETTE_PAGE_START)) =>
        reg.ret = reg.expect

\* C7 happens: the second read of such a sequence, made below $3F00, returns
\* the byte $AA stored where the first read was made
C7_LaggedRead ==
    reg.seq = 2 /\ reg.at < PALETTE_PAGE_START /\ reg.ret = 170 /\ reg.expect = 170

\* C8: a write to $2005 leaves every field of V as it was; made with the
\* toggle clear it sets fine X = value & 7 and T.coarse_x = value >> 3, made
\* with the toggle set it sets T.fine_y = value & 7 and T.coarse_y = value >> 3.
C8_ScrollWrite ==
    (reg.kind = "write" /\ reg.addr = 8197) =>
        /\ ppu.address_register = reg.pre.v
        /\ IF ~reg.pre.latch
           THEN /\ ppu.fine_x = reg.value % 8
                /\ ppu.temp_address_register.coarse_x = reg.value \div 8
           ELSE /\ ppu.temp_address_register.fine_y = reg.value % 8
                /\ ppu.temp_address_register.coarse_y = reg.value \div 8

\* C9: a $2006 write made with the toggle clear leaves V as it was and
\* changes only the high bits of T, to value & $3F with bit 14 clear; the
\* $2006 write that follows it leaves T = V = ((hi & $3F) << 8) | lo.
C9_AddressWrites ==
    /\ (reg.kind = "write" /\ reg.addr = 8198 /\ ~reg.pre.latch) =>
          /\ ppu.address_register = reg.pre.v
          /\ address(ppu.temp_address_register)
                = (reg.value % 64) * 256 + (address(reg.pre.t) % 256)
    /\ reg.w6 = 2 =>
          /\ ppu.temp_address_register = ppu.address_register
          /\ address(ppu.address_register) = (reg.hi % 64) * 256 + reg.value
          /\ address(ppu.address_register) < 16384

\* C9 happens: hi = $FF then lo = $3E were written, and V became $3F3E
C9_AddressSet ==
    /\ reg.w6 = 2 /\ reg.hi = 255 /\ reg.value = 62
    /\ address(ppu.address_register) = 16190
    /\ ppu.address_register # reg.pre.v

\* C10: the write toggle is the parity of the number of $2005 and $2006
\* writes since the last $2002 read, or since power-on; accesses to the other
\* registers leave it as it is.
C10_Toggle ==
    ppu.latch = (reg.parity = 1)

\* C10 happens: a $2002 read found the toggle set and cleared it
C10_ToggleReset ==
    reg.kind = "read" /\ reg.addr = 8194 /\ reg.pre.latch /\ ~ppu.latch

(***************************************************************************)
(* Properties of PPU memory (SpecVram).                                    *)
(***************************************************************************)
\* C11: under Horizontal mirroring a byte written at $2000+k is read back at
\* $2400+k and one written at $2800+k at $2C00+k, while $2000+k and $2800+k
\* are distinct bytes; under Vertical mirroring $2000+k and $2800+k share a
\* byte, $2400+k and $2C00+k share a byte, and $2000+k and $2400+k are
\* distinct.
\* Two name tables share a byte when the value written to one is read back
\* at the other; they hold distinct bytes when a write to one leaves what is
\* read at the other.
C11_Mirroring ==
    LET written == ((acc.addr - 8192) \div 1024) + 1
        Shares(i, j) == /\ written = i => acc.after[j] = acc.value
                        /\ written = j => acc.after[i] = acc.value
        Distinct(i, j) == /\ written = i => acc.after[j] = acc.before[j]
                          /\ written = j => acc.after[i] = acc.before[i]
    IN  acc.kind = "write" =>
            /\ rom.mirroring = "Horizontal" =>
                  Shares(1, 2) /\ Shares(3, 4) /\ Distinct(1, 3)
            /\ rom.mirroring = "Vertical" =>
                  Shares(1, 3) /\ Shares(2, 4) /\ Distinct(1, 2)

(***************************************************************************)
(* Properties of the bus at $2000..$3FFF (SpecBus).                        *)
(***************************************************************************)
\* C12: for every address a in $2008..$3FFF, a bus read at a and a bus write
\* of any value at a return the same and leave the PPU the same as the same
\* access at a & $2007.
C12_RegisterMirrors ==
    (acc.kind \in {"read", "write"} /\ acc.addr >= 8200 /\ acc.addr <= 16383) =>
        (ppu = acc.twin.ppu /\ acc.ret = acc.twin.ret)

\* C14: a $2007 write made at any reachable V stores the byte at PPU address
\* V mod $4000 (name-table or palette RAM; the model cartridges have CHR ROM,
\* which a write leaves as it is) without failing, and then adds 1 to V if
\* Control.VramIncrement is clear and 32 if it is set.
C14_DataWrite ==
    LET v == address(acc.pre.address_register)
        step_v == IF Contains(acc.pre.control_register, VRAM_ADDRESS_INCREMENT)
                  THEN 32 ELSE 1
    IN  (acc.kind = "write" /\ acc.addr = 8199) =>
            /\ ~ppu.panic
            /\ (v % 16384) >= 8192 => acc.at_v_after = acc.value
            /\ address(ppu.address_register) = (v + step_v) % 32768

\* C15: a $2007 read made with V in $3F00..$3FFF returns the palette byte at
\* V at once and leaves the read buffer holding the name-table byte at
\* V - $1000.
C15_PaletteRead ==
    LET v == address(acc.pre.address_register)
    IN  (acc.kind = "read" /\ acc.addr = 8199 /\ v >= PALETTE_PAGE_START /\ v <= 16383) =>
            (acc.ret = acc.at_v /\ ppu.data_buffer = acc.under)

(***************************************************************************)
(* Properties of OAM DMA and of interrupts in the frame loop (Spec).       *)
(***************************************************************************)
\* C13: a bus write to $4014 advances the CPU cycle counter by exactly 513
\* cycles when the counter is even at the start of the DMA and by exactly
\* 514 cycles when it is odd.
C13_DmaCycles ==
    step.dma => step.dma_elapsed = (IF step.dma_odd THEN 514 ELSE 513)

\* C16: servicing an NMI pushes the PC's high byte, then its low byte, then
\* the status byte with Break clear and Unused set; it sets InterruptDisable,
\* loads PC from the little-endian vector at $FFFA/$FFFB, and advances the CPU
\* cycle counter by exactly 7.
C16_NmiService ==
    step.found_nmi =>
        /\ step.nmi_stack[1] = step.entry_pc \div 256
        /\ step.nmi_stack[2] = step.entry_pc % 256
        /\ ~Contains(step.nmi_stack[3], 16) /\ Contains(step.nmi_stack[3], 32)
        /\ step.nmi_cpu.stack_pointer = (step.entry_sp - 3) % 256
        /\ Contains(step.nmi_cpu.status, 4)
        /\ step.nmi_cpu.program_pointer =
               cpu_read_u8(rom, NMI_INTERRUPT_VECTOR_ADDRESS)
               + 256 * cpu_read_u8(rom, NMI_INTERRUPT_VECTOR_ADDRESS + 1)
        /\ step.nmi_elapsed = 7

(***************************************************************************)
(* Properties of the CPU (SpecCpu).                                        *)
(***************************************************************************)
\* C17: after reset, PC equals the little-endian word at $FFFC/$FFFD,
\* SP = $FD, the status register equals 0x24 (InterruptDisable and Unused
\* set, every other flag clear), and the CPU cycle counter has advanced by
\* exactly 8.
C17_Reset ==
    acc.kind = "reset" =>
        /\ cpu.program_pointer =
               cpu_read_u8(rom, RESET_PROGRAM_POINTER_ADDRESS)
               + 256 * cpu_read_u8(rom, RESET_PROGRAM_POINTER_ADDRESS + 1)
        /\ cpu.stack_pointer = 253
        /\ cpu.status = 36
        /\ cpu_cycles = acc.entry.cpu_cycles + 8

\* C18: a BRK at address a executed with InterruptDisable clear pushes a+2
\* as the return address and a status byte with Break set, and loads PC from
\* the vector at $FFFE; executed with InterruptDisable set it pushes nothing,
\* leaves SP and the stack unchanged, does not load the vector, and continues
\* at a+2.
C18_Brk ==
    LET a == step.entry_pc
        sp == acc.entry.cpu.stack_pointer
        vector == cpu_read_u8(rom, BRK_INTERRUPT_VECTOR_ADDRESS)
                  + 256 * cpu_read_u8(rom, BRK_INTERRUPT_VECTOR_ADDRESS + 1)
    IN  (acc.kind = "step" /\ step.opcode = 0 /\ step.fetched_at = a) =>
            IF ~Contains(acc.entry.cpu.status, 4)
            THEN /\ Peek(ram, STACK_PAGE_START + sp) = (a + 2) \div 256
                 /\ Peek(ram, STACK_PAGE_START + ((sp - 1) % 256)) = (a + 2) % 256
                 /\ Contains(Peek(ram, STACK_PAGE_START + ((sp - 2) % 256)), 16)
                 /\ cpu.stack_pointer = (sp - 3) % 256
                 /\ cpu.program_pointer = vector
            ELSE /\ cpu.stack_pointer = sp
                 /\ ram = acc.entry.ram
                 /\ cpu.program_pointer = a + 2
                 /\ cpu.program_pointer # vector

\* C18 happens: a BRK at $02FE executed with InterruptDisable clear and
\* SP = 1 has pushed $03, $00 and a status byte with Break set at $0101,
\* $0100 and $01FF, and PC is the vector's $8000
C18_BrkTaken ==
    /\ acc.kind = "step" /\ step.opcode = 0 /\ step.entry_pc = 766
    /\ ~Contains(acc.entry.cpu.status, 4) /\ acc.entry.cpu.stack_pointer = 1
    /\ Peek(ram, 257) = 3 /\ Peek(ram, 256) = 0 /\ Contains(Peek(ram, 511), 16)
    /\ cpu.program_pointer = 32768

\* C19: for every branch instruction at address a with offset byte d in
\* 0..255: if the condition is false the step ends with PC = a+2 after 2
\* cycles; if it is true the step ends with PC = (a+2) + signed8(d) after 3
\* cycles, plus 1 more cycle iff a+2 and the target lie in different 256-byte
\* pages.
C19_Branch ==
    LET a == step.entry_pc
        d == Peek(acc.entry.ram, a + 1)
        status == acc.entry.cpu.status
        taken == CASE step.opcode = 16 -> ~Contains(status, 128)
                   [] step.opcode = 48 -> Contains(status, 128)
                   [] step.opcode = 80 -> ~Contains(status, 64)
                   [] step.opcode = 112 -> Contains(status, 64)
                   [] step.opcode = 144 -> ~Contains(status, 1)
                   [] step.opcode = 176 -> Contains(status, 1)
                   [] step.opcode = 208 -> ~Contains(status, 2)
                   [] step.opcode = 240 -> Contains(status, 2)
        target == ((a + 2) + (IF d >= 128 THEN d - 256 ELSE d)) % 65536
    IN  (acc.kind = "step" /\ step.opcode \in Branches /\ step.fetched_at = a) =>
            IF taken
            THEN /\ cpu.program_pointer = target
                 /\ step.elapsed = 3 + (IF (a + 2) \div 256 # target \div 256 THEN 1 ELSE 0)
            ELSE /\ cpu.program_pointer = a + 2
                 /\ step.elapsed = 2

\* C20: for all 8-bit A, operand op and carry-in C: ADC leaves
\* A = (A + op + C) mod 256 with Carry = (A + op + C > 255),
\* Overflow = ((A ^ result) & (op ^ result) & 0x80) != 0, Zero = (result = 0)
\* and Negative = bit 7 of the result; SBC gives exactly the ADC result and
\* flags for the operand op ^ 0xFF.
C20_AdcSbc ==
    LET a == acc.entry.cpu.register_a
        byte == Peek(acc.entry.ram, step.entry_pc + 1)
        op == IF step.opcode = 233 THEN 255 - byte ELSE byte
        c == IF Contains(acc.entry.cpu.status, 1) THEN 1 ELSE 0
        result == (a + op + c) % 256
    IN  (acc.kind = "step" /\ step.opcode \in { 105, 233 } /\ step.fetched_at = step.entry_pc) =>
            /\ cpu.register_a = result
            /\ Contains(cpu.status, 1) = (a + op + c > 255)
            /\ Contains(cpu.status, 64) =
                   ((a >= 128) # (result >= 128) /\ (op >= 128) # (result >= 128))
            /\ Contains(cpu.status, 2) = (result = 0)
            /\ Contains(cpu.status, 128) = (result >= 128)

\* C20 happens: ADC #$10 with A = $F5 and Carry set has left A = $06 with
\* Carry set and Zero, Negative, Overflow clear
C20_AdcCarry ==
    /\ acc.kind = "step" /\ step.opcode = 105
    /\ acc.entry.cpu.register_a = 245 /\ Peek(acc.entry.ram, step.entry_pc + 1) = 16
    /\ Contains(acc.entry.cpu.status, 1)
    /\ cpu.register_a = 6 /\ Contains(cpu.status, 1)
    /\ ~Contains(cpu.status, 2) /\ ~Contains(cpu.status, 128) /\ ~Contains(cpu.status, 64)

(***************************************************************************)
(* Properties of the CPU's operand accesses (SpecCpu).                     *)
(***************************************************************************)
\* C21: ASL, LSR, ROL and ROR, in accumulator form and in every memory
\* addressing mode, store the shifted or rotated byte, set Carry to the bit
\* shifted out, set Zero iff the result byte is 0 and set Negative to bit 7
\* of the result.
C21_Shifts ==
    LET e == acc.entry
        op == step.opcode
        b1 == Peek(e.ram, step.entry_pc + 1)
        b2 == Peek(e.ram, step.entry_pc + 2)
        kind == CHOOSE k \in 1..4 : \E i \in 1..5 : ShiftOpcodes[k][i] = op
        mode == CHOOSE i \in 1..5 : ShiftOpcodes[kind][i] = op
        target == CASE mode = 2 -> b1
                    [] mode = 3 -> (b1 + e.cpu.register_x) % 256
                    [] mode = 4 -> b1 + 256 * b2
                    [] mode = 5 -> (b1 + 256 * b2 + e.cpu.register_x) % 65536
        data == IF mode = 1 THEN e.cpu.register_a ELSE Peek(e.ram, target)
        stored == IF mode = 1 THEN cpu.register_a ELSE Peek(ram, target)
        cin == IF Contains(e.cpu.status, 1) THEN 1 ELSE 0
        left == kind \in { 1, 3 }
        rotate == kind \in { 3, 4 }
        result == IF left THEN ((2 * data) % 256) + (IF rotate THEN cin ELSE 0)
                  ELSE (data \div 2) + (IF rotate THEN 128 * cin ELSE 0)
    IN  (acc.kind = "step" /\ step.fetched_at = step.entry_pc
         /\ \E k \in 1..4, i \in 1..5 : ShiftOpcodes[k][i] = op) =>
            /\ stored = result
            /\ Contains(cpu.status, 1) = (IF left THEN data >= 128 ELSE data % 2 = 1)
            /\ Contains(cpu.status, 2) = (result = 0)
            /\ Contains(cpu.status, 128) = (result >= 128)

\* C22: an instruction in AbsoluteX, AbsoluteY or IndirectY mode that does
\* not write the OAM DMA port advances the cycle count by the base count of
\* the opcode table, plus exactly 1 iff it is a read (here LDA abs,X,
\* LDA abs,Y, LDX abs,Y, LDA (zp),Y) and the indexed address is in another
\* page than the address before indexing; the stores (STA abs,X, STA abs,Y,
\* STA (zp),Y) and the read-modify-writes (ASL, LSR, ROL, ROR abs,X) advance
\* it by exactly the base count.
C22_PageCross ==
    LET e == acc.entry
        op == step.opcode
        b1 == Peek(e.ram, step.entry_pc + 1)
        b2 == Peek(e.ram, step.entry_pc + 2)
        absx == { 189, 157, 30, 94, 62, 126 }
        absy == { 185, 190, 153 }
        indy == { 177, 145 }
        base == IF op \in indy THEN Peek(e.ram, b1) + 256 * Peek(e.ram, (b1 + 1) % 256)
                ELSE b1 + 256 * b2
        indexed == (base + (IF op \in absx THEN e.cpu.register_x ELSE e.cpu.register_y))
                   % 65536
        crossed == (base \div 256) # (indexed \div 256)
        read == op \in { 189, 185, 190, 177 }
    IN  (acc.kind = "step" /\ step.fetched_at = step.entry_pc /\ ~step.dma
         /\ op \in absx \cup absy \cup indy) =>
            step.elapsed = OpcodeMeta(op).cycles + (IF read /\ crossed THEN 1 ELSE 0)

\* C22 witness: LDA $03F8,X with X = 8 has read $0400 and taken 5 cycles
C22_ReadCrossed ==
    /\ acc.kind = "step" /\ step.fetched_at = step.entry_pc
    /\ step.opcode = 189 /\ acc.entry.cpu.register_x = 8
    /\ cpu.register_a = 90 /\ step.elapsed = 5

(***************************************************************************)
(* Properties of single calls (SpecCalls).                                 *)
(***************************************************************************)
\* C23: for every byte b and every stack pointer, $00 and $FF included,
\* push_stack_u8(b) followed by pop_stack_u8 returns b and leaves the stack
\* pointer as it was before the push; the byte went to $0100 + the stack
\* pointer, and the push left the stack pointer one lower within the page.
C23_PushPop ==
    LET sp == acc.entry.cpu.stack_pointer
    IN  acc.kind = "push_pop" =>
            /\ acc.out[1] = acc.call.value
            /\ cpu.stack_pointer = sp
            /\ Peek(ram, STACK_PAGE_START + sp) = acc.call.value
            /\ acc.out[2] = (IF sp = 0 THEN 255 ELSE sp - 1)

\* C23 witness: $FF pushed at stack pointer $00 went to $0100, left the
\* stack pointer at $FF, and was popped with the stack pointer back at $00
C23_PushPopWrapped ==
    /\ acc.kind = "push_pop" /\ acc.entry.cpu.stack_pointer = 0
    /\ acc.call.value = 255 /\ acc.out = << 255, 255 >>
    /\ Peek(ram, 256) = 255 /\ cpu.stack_pointer = 0

\* C24: a byte written at $3F10, $3F14, $3F18 or $3F1C is read back at
\* $3F00, $3F04, $3F08 or $3F0C, and the other way round; a write at any
\* address of $3F00..$3F1F changes what is read at that address and at its
\* mirror, and what is read at every other address of $3F00..$3F1F stays as
\* it was.
C24_PaletteMirrors ==
    LET a == acc.call.addr - PALETTE_PAGE_START
        Alias(i) == i = a \/ (a % 4 = 0 /\ i % 4 = 0 /\ (i = a + 16 \/ a = i + 16))
    IN  acc.kind = "palette" =>
            \A i \in 0..31 :
                acc.out[2][i + 1] = (IF Alias(i) THEN acc.call.value ELSE acc.out[1][i + 1])

\* C24 witness: the byte written at $3F10 is read at $3F00, where $44 was
\* read before, and the byte read at $3F04 is another one
C24_MirrorWritten ==
    /\ acc.kind = "palette" /\ acc.call.addr = PALETTE_PAGE_START + 16
    /\ acc.out[2][1] = acc.call.value /\ acc.out[1][1] = 68
    /\ acc.out[2][17] = acc.call.value
    /\ acc.out[2][5] # acc.call.value

\* C25: whatever the CPU wrote to palette RAM through $2006 and $2007 and
\* however many times the PPU has ticked, every cell of the screen buffer
\* holds a palette index in 0..63.
C25_ScreenColours ==
    \A cell \in DOMAIN ppu.screen : ppu.screen[cell] \in 0..63

\* C26: after a write to a joypad's port, the reads of that port return in
\* bit 0, in this order, A, B, Select, Start, Up, Down, Left, Right as they
\* were pressed at the moment of the write, whatever presses and releases
\* come between the reads; every further read before the next write of the
\* port returns 0.
C26_JoypadReads ==
    LET order == << "A", "B", "SELECT", "START", "UP", "DOWN", "LEFT", "RIGHT" >>
    IN  (acc.call.fn = "pad" /\ acc.kind = "strobe") =>
            \A i \in 1..Len(acc.out) :
                acc.out[i] = (IF i <= 8 /\ Contains(acc.value, JoypadButtons[order[i]])
                              THEN 1 ELSE 0)

\* C26 witness: Right alone was pressed at the write, nine reads followed,
\* and Right has been released since
C26_NineReads ==
    /\ acc.call.fn = "pad" /\ acc.kind = "strobe"
    /\ acc.value = 1 /\ acc.out = << 0, 0, 0, 0, 0, 0, 0, 1, 0 >>
    /\ joypads[Pad].buttons_pressed = 0

\* C27: on a UxROM cartridge, after a CPU write of v at an address in
\* $8000..$FFFF, a CPU read at addr in $8000..$BFFF returns the PRG byte at
\* (v & $0F) * 16 KiB + (addr & $3FFF) and a read at addr in $C000..$FFFF
\* returns the PRG byte at (prg_banks - 1) * 16 KiB + (addr & $3FFF); the
\* writes leave the PRG bytes as they were loaded.
C27_UxRomBanks ==
    (acc.call.fn = "uxrom") =>
        LET loaded == UxRomCartridge(acc.call.value)
            addr == acc.out[1]
            bank == IF addr < 49152 THEN acc.value % 16 ELSE acc.call.value - 1
        IN  /\ rom.prg_memory = loaded.prg_memory
            /\ (acc.kind = "cpu_read" /\ acc.addr >= 32768) =>
                   << acc.out[2], acc.out[3] >>
                       = << TRUE, 16 * bank + ((addr % BANK_SIZE) % 16) >>

\* C28: an NROM mapper maps every PPU address in $0000..$1FFF, read or
\* written, to the CHR offset addr mod (chr_banks * 8 KiB), or addr mod
\* 8 KiB when chr_banks is 0.
C28_NromChr ==
    (acc.call.fn = "chr" /\ acc.kind = "ppu_map") =>
        LET size == IF acc.call.value = 0 THEN CHR_BANK_PAGE_SIZE
                    ELSE acc.call.value * CHR_BANK_PAGE_SIZE
        IN  acc.out = << acc.call.addr % size, acc.call.addr % size >>

\* C29: with the mapper id of a ROM file read as the high nibble of flag
\* byte 2 (its high nibble) and the high nibble of flag byte 1 (its low
\* nibble), Cartridge::new fails on every file whose mapper id is neither 0
\* nor 2, builds the NROM mapper only for id 0 and the UxROM mapper only for
\* id 2.  Stated of the files that start with 'N', 'E', 'S', $1A.
C29_MapperId ==
    (acc.call.fn = "load" /\ acc.kind = "new" /\ Len(acc.call.bytes) >= 8
        /\ SubSeq(acc.call.bytes, 1, 4) = << 78, 69, 83, 26 >>) =>
        LET id == 16 * (acc.call.bytes[8] \div 16) + (acc.call.bytes[7] \div 16)
            built == acc.out[1]
        IN  /\ id \notin { 0, 2 } => ~built.ok
            /\ built.ok => /\ built.mapper_type = "NROM" => id = 0
                           /\ built.mapper_type = "UxRom" => id = 2

\* C30: Cartridge::new fails, and builds no cartridge, on every ROM file
\* whose first four bytes are not 'N', 'E', 'S', $1A.
C30_Magic ==
    (acc.call.fn = "load" /\ acc.kind = "new"
        /\ ~(Len(acc.call.bytes) >= 4
                /\ SubSeq(acc.call.bytes, 1, 4) = << 78, 69, 83, 26 >>)) => ~acc.out[1].ok

\* C35: the Y increment adds 1 to fine Y below 7, and otherwise clears fine Y
\* and steps coarse Y: 29 wraps to 0 and flips nametable Y, 31 wraps to 0
\* without the flip, any other row is incremented; the X increment wraps
\* coarse X 31 to 0 and flips nametable X, and otherwise increments coarse X;
\* neither changes anything else, and neither is applied while ShowBackground
\* and ShowSprites are both clear.
C35_ScrollIncrements ==
    LET v == acc.pre.address_register
        w == ppu.address_register
        shown == Contains(acc.pre.mask_register, SHOW_BACKGROUND)
                 \/ Contains(acc.pre.mask_register, SHOW_SPRITES)
        Y == IF v.fine_y < 7 THEN [v EXCEPT !.fine_y = v.fine_y + 1]
             ELSE [v EXCEPT !.fine_y = 0,
                            !.coarse_y = IF v.coarse_y \in { 29, 31 } THEN 0 ELSE v.coarse_y + 1,
                            !.nametable_y = IF v.coarse_y = 29 THEN 1 - v.nametable_y
                                            ELSE v.nametable_y]
        X == [v EXCEPT !.coarse_x = IF v.coarse_x = 31 THEN 0 ELSE v.coarse_x + 1,
                       !.nametable_x = IF v.coarse_x = 31 THEN 1 - v.nametable_x
                                       ELSE v.nametable_x]
    IN  /\ acc.kind \in { "scroll_x", "scroll_y" } =>
              ppu = [acc.pre EXCEPT !.address_register = w]
        /\ acc.kind = "scroll_y" => w = (IF shown THEN Y ELSE v)
        /\ acc.kind = "scroll_x" => w = (IF shown THEN X ELSE v)

\* The Y increment was applied at fine Y 7 of row 29 with the sprites shown
C35_Row29Wrapped ==
    /\ acc.kind = "scroll_y"
    /\ acc.pre.mask_register = 16
    /\ acc.pre.address_register =
           [ coarse_x |-> 31, coarse_y |-> 29, nametable_x |-> 1, nametable_y |-> 0,
             fine_y |-> 7 ]
    /\ ppu.address_register =
           [ coarse_x |-> 31, coarse_y |-> 0, nametable_x |-> 1, nametable_y |-> 1,
             fine_y |-> 0 ]

\* C36: on a UxROM cartridge of prg_banks PRG banks, after any CPU writes at
\* $8000..$FFFF, every CPU read at $8000..$FFFF maps to an offset below
\* prg_banks * 16 KiB and so indexes inside the PRG memory.
C36_UxRomInBounds ==
    (acc.call.fn = "uxrom" /\ acc.kind = "cpu_read") =>
        /\ uxrom_map_cpu_read(rom, acc.out[1]) < rom.prg_banks_count * BANK_SIZE
        /\ acc.out[2]

\* C37: an NMI serviced in a state S and followed immediately by RTI restores
\* the program counter, the stack pointer and the Carry, Zero,
\* InterruptDisable, Decimal, Overflow and Negative flags to their values
\* in S.
C37_NmiRtiRestores ==
    (acc.kind = "nmi_rti" /\ step.found_nmi /\ step.opcode = 64) =>
        /\ cpu.program_pointer = acc.entry.cpu.program_pointer
        /\ cpu.stack_pointer = acc.entry.cpu.stack_pointer
        /\ BitAnd(cpu.status, 207) = BitAnd(acc.entry.cpu.status, 207)

\* C38: a CPU write at $4016 reloads the shift register of joypad 1 only and
\* leaves that of joypad 2 as it was; the shift register of joypad 2 is
\* reloaded only by a CPU write at $4017; neither write changes the buttons
\* pressed of either joypad.
C38_JoypadPorts ==
    (acc.kind = "port_write") =>
        LET written == (acc.call.addr % 2) + 1
            other == 3 - written
        IN  /\ (acc.call.addr = 16406) = (written = 1)
            /\ joypads[written].state = acc.before[written].buttons_pressed
            /\ joypads[other].state = acc.before[other].state
            /\ \A i \in 1..2 : joypads[i].buttons_pressed = acc.before[i].buttons_pressed

\* A write at $4016 reloaded joypad 1 with A, when joypad 2 had Start and
\* Right pressed and $40 in its shift register
C38_FirstPortWritten ==
    /\ acc.kind = "port_write" /\ acc.call.addr = 16406
    /\ acc.before = << [ state |-> 2, buttons_pressed |-> 128 ],
                       [ state |-> 64, buttons_pressed |-> 129 ] >>
    /\ joypads = << [ state |-> 128, buttons_pressed |-> 128 ],
                    [ state |-> 64, buttons_pressed |-> 129 ] >>

(***************************************************************************)
(* Properties of the PPU dot by dot (SpecPpu).                             *)
(***************************************************************************)
\* C31: after the sprite evaluation of a scanline, with n the number of OAM
\* sprites whose rows hold the scanline, scanline_sprites holds the first
\* min(n, 8) of them in OAM order, sprites_count is min(n, 8), and
\* Status.SpriteOverflow is set exactly when n >= 9.
C31_SpriteEvaluation ==
    (acc.kind = "dot" /\ acc.pre.scanlines >= 0
        /\ acc.pre.cycles = VISIBLE_SCANLINE_CYCLES + 1) =>
        LET hits == { i \in 0 .. OAM_SPRITES_COUNT - 1 : InRows(acc.pre, i, acc.pre.scanlines) }
            n == Cardinality(hits)
            kept == IF n < 8 THEN n ELSE 8
        IN  /\ ppu.sprites_count = kept
            /\ \A k \in 1 .. kept :
                   \E i \in hits : /\ Cardinality({ j \in hits : j < i }) = k - 1
                                    /\ ppu.scanline_sprites[k] = OamSprite(acc.pre, i)
            /\ Contains(ppu.status_register, SPRITE_OVERFLOW) <=> n >= 9

\* C32: has_sprite_zero_hit (the spec's sprite0_present) reflects only the
\* most recent sprite evaluation: when that evaluation did not find OAM
\* sprite 0 in its rows, has_sprite_zero_hit is false and no tick raises
\* Status.Sprite0Hit.
C32_SpriteZeroPresent ==
    (acc.kind = "dot" /\ acc.value = 0) =>
        /\ ~ppu.has_sprite_zero_hit
        /\ Contains(ppu.status_register, SPRITE_ZERO_HIT)
               => Contains(acc.pre.status_register, SPRITE_ZERO_HIT)

\* C33: a PPU tick sets Status.Sprite0Hit only at a dot in 1..256, not at
\* the dots 1..8 unless both leftmost-show bits of Mask are on, and only
\* with background and sprite rendering both enabled.
C33_SpriteZeroHitDots ==
    (acc.kind = "dot" /\ Contains(ppu.status_register, SPRITE_ZERO_HIT)
        /\ ~Contains(acc.pre.status_register, SPRITE_ZERO_HIT)) =>
        /\ acc.pre.cycles >= 1 /\ acc.pre.cycles <= 256
        /\ acc.pre.cycles <= 8 =>
               /\ Contains(ppu.mask_register, LEFTMOST_SHOW_BACKGROUND)
               /\ Contains(ppu.mask_register, LEFTMOST_SHOW_SPRITES)
        /\ Contains(ppu.mask_register, SHOW_BACKGROUND)
        /\ Contains(ppu.mask_register, SHOW_SPRITES)

\* C34: with Mask.ShowBackground set, the background pixel at every dot
\* beyond 8 is the pattern index and the palette index that bit 15 >> fine_x
\* selects from the background shifters, whether Mask's
\* leftmost-show-background bit is set or clear.  Stated of the ticks that
\* draw with sprites hidden: the cell drawn holds the palette byte of that
\* pixel.
C34_BackgroundPixel ==
    (acc.kind = "dot" /\ acc.pre.scanlines >= 0 /\ acc.pre.scanlines < SCREEN_HEIGHT
        /\ acc.pre.cycles > 8 /\ acc.pre.cycles <= SCREEN_WIDTH
        /\ Contains(ppu.mask_register, SHOW_BACKGROUND)
        /\ ~Contains(ppu.mask_register, SHOW_SPRITES)) =>
        LET mux == 2 ^ (15 - ppu.fine_x)
            Bit(v) == IF Contains(v, mux) THEN 1 ELSE 0
            pixel == 2 * Bit(ppu.background_shifter_pattern_high)
                     + Bit(ppu.background_shifter_pattern_low)
            palette == 2 * Bit(ppu.background_shifter_attribute_high)
                       + Bit(ppu.background_shifter_attribute_low)
        IN  Peek(ppu.screen, acc.pre.scanlines * SCREEN_WIDTH + acc.pre.cycles - 1)
                = read_u8(ppu, rom, PALETTE_MEMORY_START
                                     + (IF pixel = 0 THEN 0 ELSE 4 * palette + pixel))

\* C39: for every mirroring mode the ROM parser can produce (Horizontal,
\* Vertical, FourScreen) the name-table reads and writes of the PPU, and so
\* every PPU tick, complete without aborting the process.
C39_TicksComplete == ~ppu.panic

(***************************************************************************)
(* Properties of one call of clock_cpu (SpecLive).                         *)
(***************************************************************************)
\* C40: every cpu step advances the bus cycle counter by at least 2, and each
\* of those cycles advances the PPU by three dots; so repeated cpu steps
\* eventually make the PPU set completed_frame, and clock_cpu(n) returns for
\* every n: it returns, and when n is the cycles of a PPU frame or more the
\* PPU has set completed_frame by then.
C40_StepsAdvance ==
    /\ [][/\ cpu_cycles' # cpu_cycles => cpu_cycles' >= cpu_cycles + 2
          /\ watch'.ticks - watch.ticks = 3 * (cpu_cycles' - cpu_cycles)
          /\ drv'.cycles > drv.cycles => drv'.cycles >= drv.cycles + 2]_vars
    /\ <>(/\ drv.returns = 1
          /\ acc.call.value >= cpu_cycles_of_ppu_frame =>
                 (ppu.completed_frame /\ watch.pulses >= 1))

\* clock_cpu has returned from a frame's worth of cpu steps, in which the
\* PPU completed a frame
C40_FrameRun ==
    /\ drv.returns = 1 /\ acc.call.value = cpu_cycles_of_ppu_frame
    /\ drv.cycles >= acc.call.value
    /\ watch.pulses = 1 /\ ppu.completed_frame

====
